---- MODULE Spec2Model ----
(***************************************************************************)
(* Model of the nanotune benchmark command (commands/benchmark.tsx):       *)
(* the text normalizer, the match strategies (checkPass) and the per-test  *)
(* loop of BenchmarkCommand.run with its race between the inference call   *)
(* and the timeout timer; and of the judge protocol (lib/judge.ts):        *)
(* resolveCriteria, parseJudgeResponse and callJudge.                      *)
(*                                                                         *)
(* A JavaScript string is modelled as a sequence of one-character strings. *)
(* In the texts of the judge protocol a word (a key, a name, a literal)    *)
(* and the three-backtick fence are single elements.                       *)
(***************************************************************************)
EXTENDS Integers, Sequences, FiniteSets, TLC

VARIABLES
    \* ---- checkPass, called on its own (specification MatchSpec) ----
    acceptable,        \* string[]: the acceptable answers
    actual,            \* string: the response under test
    mode,              \* MatchMode, or "undefined" when the argument is omitted
    caseSensitive,     \* boolean
    matchResult,       \* <<>> before the call, <<r>> after it (r = the returned object)
    normalized,        \* what the successive calls of normalizeText returned
                       \* (specification NormalizeSpec)
    \* ---- BenchmarkCommand.run (specifications Spec and FairSpec) ----
    dataset,           \* what the dataset path holds: "missing", "unparsable", or the
                       \* JSON value "null", "object" ({}) or "array"
    tests,             \* the decoded dataset (tests.json), when it is an array
    exited,            \* <<>> while the component is mounted; once exit() was called
                       \* (Esc or Enter), <<the number of inference calls made before>>
    pc,                \* where run() is: "idle", "start", "loop", "await", "end"
    status,            \* the component's status state
    i,                 \* the loop index, 0-based as in the source
    categoryResults,   \* the own properties of the categoryResults object
    inherited,         \* the counters written on objects categoryResults inherits
    failures,          \* BenchmarkResult['failures']
    allResults,        \* BenchmarkTestResult[]
    inference,         \* per test: the state of its runGGUFInference promise
    timer,             \* per test: the state of its setTimeout timer
    settled,           \* <<>> while the current race is open, else <<its outcome>>
    finalResult,       \* <<>> until computed, then <<the BenchmarkResult>>
    results,           \* the component's results state: <<>> (null) or <<BenchmarkResult>>
    written,           \* the artifacts written to the benchmarks directory
    \* history of the calls made per test, kept to state the properties
    dispatched,        \* number of runGGUFInference calls made for the test
    matchCalls,        \* number of checkPass calls made for the test
    outcomes,          \* how each recorded test's race had settled
    \* ---- lib/judge.ts (specifications CriteriaSpec and JudgeSpec) ----
    names,             \* resolveCriteria's argument: <<>> (undefined) or <<the array>>
    resolved,          \* <<>> before the call, then <<what resolveCriteria returned>>
    criteria,          \* JudgeCriteria[]: the criteria the judge is asked to score
    passThreshold,     \* the threshold given to parseJudgeResponse and callJudge
    reply,             \* the judge's reply: its text, and how the text was made
    judgePc,           \* "idle", "start", "parsed", "calling", "done"
    \* ---- lib/data.ts (specification DataSpec) ----
    trainFile,         \* train.jsonl: whether it exists, and its content
    validFile,         \* valid.jsonl: whether it exists, and its content
    dataOp,            \* history: the last call made, the files before it, what it returned
    \* ---- JudgeConfigureCommand (specification WizardSpec) ----
    step,              \* ConfigureStep
    selectedTemplate,  \* <<>> (null) or <<the provider template selected>>
    fieldIndex,        \* index of the field being asked
    builtConfig,       \* <<>> (null) or <<the JudgeProviderConfig built>>
    mounted,           \* the component is rendered: exit() has not been called
    testCall,          \* the connection test: "none", "running", "returned", "raised"
    cancelled,         \* the flag the effect's cleanup sets
    exitTimer,         \* the timer set on 'done': "idle", "armed", "fired"
    judgeFile,         \* judge.json: <<>> when absent, else <<the config it holds>>
    stepsTaken,        \* history: the steps the wizard has been in, in order
    writes,            \* history: each write of judge.json, with the step, the state of
                       \* the test call and the flag at the time
    parseOut,          \* <<>>, then <<the outcome of parseJudgeResponse(reply.text, ..)>>
    judgeOut           \* <<>>, then <<the outcome of callJudge(..)>>

matchVars == <<acceptable, actual, mode, caseSensitive, matchResult, normalized>>
runVars == <<dataset, exited, tests, pc, status, i, categoryResults, inherited, failures, allResults,
             inference, timer, settled, finalResult, results, written,
             dispatched, matchCalls, outcomes>>
judgeVars == <<names, resolved, criteria, passThreshold, reply, judgePc, parseOut,
               judgeOut>>
dataVars == <<trainFile, validFile, dataOp>>
wizardVars == <<step, selectedTemplate, fieldIndex, builtConfig, mounted, testCall,
                cancelled, exitTimer, judgeFile, stepsTaken, writes>>
otherVars == <<dataVars, wizardVars>>
vars == <<matchVars, runVars, judgeVars, otherVars>>

----------------------------------------------------------------------------
(* Bounds *)

\* longest text enumerated as an input of checkPass
MaxLen == 2

----------------------------------------------------------------------------
(* Strings *)

\* the characters the enumerated texts are made of
Chars == {"a", "A", " ", "\n", ":", "'"}

\* /\s/ and String.prototype.trim whitespace, restricted to the characters used
IsSpace(c) == c \in {" ", "\n", "\t"}

\* the double-quote character U+0022 and the backtick U+0060, which a string
\* literal of the module cannot hold
DQ == "dq"
BQ == "bq"

\* the character class of the quote pattern in normalizeText: U+0022, U+0027, U+0060
IsQuote(c) == c \in {DQ, "'", BQ}

\* String.prototype.toLowerCase on one character
LowerChar(c) ==
    CASE c = "A" -> "a"
      [] c = "E" -> "e"
      [] c = "L" -> "l"
      [] c = "S" -> "s"
      [] c = "T" -> "t"
      [] OTHER -> c

toLowerCase(s) == [k \in 1..Len(s) |-> LowerChar(s[k])]

RECURSIVE trimStart(_)
trimStart(s) ==
    IF s # <<>> /\ IsSpace(Head(s)) THEN trimStart(Tail(s)) ELSE s

RECURSIVE trimEnd(_)
trimEnd(s) ==
    IF s # <<>> /\ IsSpace(s[Len(s)]) THEN trimEnd(SubSeq(s, 1, Len(s) - 1)) ELSE s

\* String.prototype.trim
trim(s) == trimEnd(trimStart(s))

\* s.replace(/\s+/g, ' '): every maximal run of whitespace becomes one space
RECURSIVE collapseSpaces(_)
collapseSpaces(s) ==
    IF s = <<>> THEN <<>>
    ELSE IF IsSpace(Head(s))
         THEN <<" ">> \o collapseSpaces(trimStart(s))
         ELSE <<Head(s)>> \o collapseSpaces(Tail(s))

\* the second replace of normalizeText: every quote character becomes U+0022
replaceQuotes(s) == [k \in 1..Len(s) |-> IF IsQuote(s[k]) THEN DQ ELSE s[k]]

\* String.prototype.startsWith
startsWith(s, p) == Len(p) <= Len(s) /\ SubSeq(s, 1, Len(p)) = p

\* String.prototype.includes
includes(s, p) ==
    \E k \in 0..(Len(s) - Len(p)) : SubSeq(s, k + 1, k + Len(p)) = p

\* normalizeText without its trim
normalizeTextUntrimmed(text) == replaceQuotes(collapseSpaces(text))

normalizeText(text) == replaceQuotes(collapseSpaces(trim(text)))

----------------------------------------------------------------------------
(* checkPass *)

processText(text, cs) == IF cs THEN trim(text) ELSE toLowerCase(trim(text))

NoMatch == [passed |-> FALSE, matchedAnswer |-> <<>>, matchType |-> "null"]

Match(expected, type) ==
    [passed |-> TRUE, matchedAnswer |-> <<expected>>, matchType |-> type]

\* semanticRule with the partial test moved before the other two
semanticRulePartialFirst(actualNormalized, expectedNormalized) ==
    IF \/ startsWith(expectedNormalized, actualNormalized \o <<" ">>)
       \/ startsWith(expectedNormalized, actualNormalized)
    THEN "partial"
    ELSE IF actualNormalized = expectedNormalized
    THEN "exact"
    ELSE IF \/ startsWith(actualNormalized, expectedNormalized \o <<" ">>)
            \/ startsWith(actualNormalized, expectedNormalized \o <<":">>)
            \/ startsWith(actualNormalized, expectedNormalized \o <<"\n">>)
    THEN "startsWith"
    ELSE "null"

\* semanticRule taking a response for partial only when the answer goes on
\* with a space after it
semanticRuleWordPrefix(actualNormalized, expectedNormalized) ==
    IF actualNormalized = expectedNormalized
    THEN "exact"
    ELSE IF \/ startsWith(actualNormalized, expectedNormalized \o <<" ">>)
            \/ startsWith(actualNormalized, expectedNormalized \o <<":">>)
            \/ startsWith(actualNormalized, expectedNormalized \o <<"\n">>)
    THEN "startsWith"
    ELSE IF startsWith(expectedNormalized, actualNormalized \o <<" ">>)
    THEN "partial"
    ELSE "null"

\* the semantic case of the switch: the matchType of the first of its three
\* tests that holds, "null" when none does
semanticRule(actualNormalized, expectedNormalized) ==
    IF actualNormalized = expectedNormalized
    THEN "exact"
    ELSE IF \/ startsWith(actualNormalized, expectedNormalized \o <<" ">>)
            \/ startsWith(actualNormalized, expectedNormalized \o <<":">>)
            \/ startsWith(actualNormalized, expectedNormalized \o <<"\n">>)
    THEN "startsWith"
    ELSE IF \/ startsWith(expectedNormalized, actualNormalized \o <<" ">>)
            \/ startsWith(expectedNormalized, actualNormalized)
    THEN "partial"
    ELSE "null"

\* the body of the for loop for one acceptable answer: <<r>> when it returns r,
\* <<>> when it breaks out of the switch and the loop goes on
checkOne(expected, act, m, cs) ==
    LET actualProcessed == processText(act, cs)
        actualNormalized == normalizeText(actualProcessed)
        expectedProcessed == processText(expected, cs)
        expectedNormalized == normalizeText(expectedProcessed)
    IN  CASE m = "exact" ->
               IF actualProcessed = expectedProcessed
               THEN <<Match(expected, "exact")>> ELSE <<>>
          [] m = "contains" ->
               IF includes(actualNormalized, expectedNormalized)
               THEN <<Match(expected, "contains")>> ELSE <<>>
          [] m = "startsWith" ->
               IF startsWith(actualNormalized, expectedNormalized)
               THEN <<Match(expected, "startsWith")>> ELSE <<>>
          [] OTHER ->
               LET type == semanticRule(actualNormalized, expectedNormalized)
               IN  IF type # "null" THEN <<Match(expected, type)>> ELSE <<>>

\* checkFrom returning on the last acceptable answer that matches
checkFromLastMatch(k, acc, act, m, cs) ==
    LET hits == {j \in k..Len(acc) : checkOne(acc[j], act, m, cs) # <<>>}
    IN  IF hits = {} THEN NoMatch
        ELSE checkOne(acc[CHOOSE j \in hits : \A h \in hits : h <= j], act, m, cs)[1]

\* checkFrom giving up after the first acceptable answer
checkFromFirstOnly(k, acc, act, m, cs) ==
    IF k > Len(acc) THEN NoMatch
    ELSE LET r == checkOne(acc[k], act, m, cs)
         IN  IF r # <<>> THEN r[1] ELSE NoMatch

RECURSIVE checkFrom(_, _, _, _, _)
checkFrom(k, acc, act, m, cs) ==
    IF k > Len(acc) THEN NoMatch
    ELSE LET r == checkOne(acc[k], act, m, cs)
         IN  IF r # <<>> THEN r[1] ELSE checkFrom(k + 1, acc, act, m, cs)

\* an omitted (undefined) mode takes the parameter's default, 'semantic'
checkPass(acc, act, m, cs) ==
    checkFrom(1, acc, act, IF m = "undefined" THEN "semantic" ELSE m, cs)

----------------------------------------------------------------------------
(* Specification MatchSpec: checkPass on enumerated inputs *)

Texts == UNION {[1..n -> Chars] : n \in 0..MaxLen}

\* texts of the acceptable answers of two-answer lists
PairChars == {"a", " "}
PairTexts == UNION {[1..n -> PairChars] : n \in 0..MaxLen}

AnswerLists ==
    {<<>>} \cup {<<a>> : a \in Texts} \cup {<<a, b>> : a \in PairTexts, b \in PairTexts}

Modes == {"exact", "contains", "startsWith", "semantic", "undefined"}

\* the texts of the documented examples
T_ls == <<"l", "s">>
T_ls_la == <<"l", "s", " ", "-", "l", "a">>
T_paris == <<"p", "a", "r", "i", "s">>
T_lyon == <<"T", "h", "e", " ", "c", "a", "p", "i", "t", "a", "l", " ",
            "i", "s", " ", "L", "y", "o", "n">>

ExampleInputs ==
    { [acc |-> <<T_ls>>, act |-> T_ls],
      [acc |-> <<T_ls>>, act |-> T_ls_la],
      [acc |-> <<T_ls_la>>, act |-> T_ls],
      [acc |-> <<T_paris>>, act |-> T_lyon] }

Inputs == {[acc |-> a, act |-> t] : a \in AnswerLists, t \in Texts} \cup ExampleInputs

\* the benchmark command is not running
RunIdle ==
    /\ dataset = "array"
    /\ exited = <<>>
    /\ tests = <<>>
    /\ pc = "idle"
    /\ status = "loading"
    /\ i = 0
    /\ categoryResults = <<>>
    /\ inherited = <<>>
    /\ failures = <<>>
    /\ allResults = <<>>
    /\ inference = <<>>
    /\ timer = <<>>
    /\ settled = <<>>
    /\ finalResult = <<>>
    /\ results = <<>>
    /\ written = {}
    /\ dispatched = <<>>
    /\ matchCalls = <<>>
    /\ outcomes = <<>>

\* the data files of the project do not exist and nothing of lib/data.ts is
\* being called
NoFile == [exists |-> FALSE, content |-> <<>>]
NoOp == [name |-> "none", index |-> 0, isEval |-> FALSE, example |-> <<>>,
         train |-> NoFile, valid |-> NoFile,
         returned |-> [trainCount |-> 0, validCount |-> 0]]

DataIdle ==
    /\ trainFile = NoFile
    /\ validFile = NoFile
    /\ dataOp = NoOp

\* `nanotune judge configure` is not running
WizardIdle ==
    /\ step = "select-provider"
    /\ selectedTemplate = <<>>
    /\ fieldIndex = 0
    /\ builtConfig = <<>>
    /\ mounted = FALSE
    /\ testCall = "none"
    /\ cancelled = FALSE
    /\ exitTimer = "idle"
    /\ judgeFile = <<>>
    /\ stepsTaken = <<>>
    /\ writes = <<>>

OtherIdle == DataIdle /\ WizardIdle

\* nothing of lib/judge.ts is being called
JudgeIdle ==
    /\ names = <<>>
    /\ resolved = <<>>
    /\ criteria = <<>>
    /\ passThreshold = 0
    /\ reply = <<>>
    /\ judgePc = "idle"
    /\ parseOut = <<>>
    /\ judgeOut = <<>>

MatchInit ==
    /\ OtherIdle
    /\ \E inp \in Inputs : acceptable = inp.acc /\ actual = inp.act
    /\ mode \in Modes
    /\ caseSensitive \in BOOLEAN
    /\ matchResult = <<>>
    /\ normalized = <<>>
    /\ RunIdle
    /\ JudgeIdle

Evaluate ==
    /\ pc = "idle"
    /\ matchResult = <<>>
    /\ matchResult' = <<checkPass(acceptable, actual, mode, caseSensitive)>>
    /\ UNCHANGED <<otherVars, acceptable, actual, mode, caseSensitive, normalized, runVars, judgeVars>>

MatchNext == Evaluate

MatchSpec == MatchInit /\ [][MatchNext]_vars

----------------------------------------------------------------------------
(* normalizeText, called on its own and on its own result *)

\* longest text normalizeText is given
MaxNormLen == 4

\* letters of both cases, the whitespace characters and the three quotes
NormChars == {"a", "A", " ", "\n", "\t", "'", BQ, DQ}

NormTexts == UNION {[1..n -> NormChars] : n \in 0..MaxNormLen}

NormalizeInit ==
    /\ OtherIdle
    /\ acceptable = <<>>
    /\ actual \in NormTexts
    /\ mode = "undefined"
    /\ caseSensitive = FALSE
    /\ matchResult = <<>>
    /\ normalized = <<>>
    /\ RunIdle
    /\ JudgeIdle

\* a call of normalizeText: on the text first, then on what it returned
Normalize ==
    /\ Len(normalized) < 2
    /\ normalized' = Append(normalized,
                            normalizeText(IF normalized = <<>> THEN actual
                                          ELSE normalized[Len(normalized)]))
    /\ UNCHANGED <<otherVars, acceptable, actual, mode, caseSensitive, matchResult, runVars, judgeVars>>

NormalizeNext == Normalize

NormalizeSpec == NormalizeInit /\ [][NormalizeNext]_vars

IsLetter(c) == c \in {"a", "A"}

\* C23: normalizeText returns a canonical form: no whitespace at either end,
\* no two whitespace characters in a row, no newline, no apostrophe and no
\* backtick (each quote has become U+0022), the letters of the text in their
\* order and case; normalizing the result again gives the result.
C23_NormalizeCanonical ==
    normalized # <<>> =>
        LET n == normalized[1]
        IN  /\ n # <<>> => ~IsSpace(n[1]) /\ ~IsSpace(n[Len(n)])
            /\ \A k \in 1..(Len(n) - 1) : ~(IsSpace(n[k]) /\ IsSpace(n[k + 1]))
            /\ \A k \in 1..Len(n) : n[k] \notin {"\n", "'", BQ}
            /\ Len(SelectSeq(n, LAMBDA c : c = DQ)) = Len(SelectSeq(actual, IsQuote))
            /\ SelectSeq(n, IsLetter) = SelectSeq(actual, IsLetter)
            /\ Len(normalized) = 2 => normalized[2] = n

\* a text normalized twice that holds an upper-case letter, a run of two
\* whitespace characters ending in a newline, and a quote other than U+0022
C23_Witness ==
    /\ Len(normalized) = 2
    /\ Len(actual) = 4
    /\ actual[1] = "A"
    /\ IsSpace(actual[2])
    /\ actual[3] = "\n"
    /\ actual[4] \in {"'", BQ}
    /\ normalized[1] = <<"A", " ", DQ>>

----------------------------------------------------------------------------
(* Properties of checkPass *)

Evaluated == matchResult # <<>>
result == matchResult[1]

\* case folding alone, as the claims speak of it
fold(t) == IF caseSensitive THEN t ELSE toLowerCase(t)

\* the comparison form of the non-exact modes: case folding, then normalization
norm(t) == normalizeText(processText(t, caseSensitive))

\* p is a (contiguous) substring of s / a prefix of s, stated without the
\* string methods checkPass calls
IsSubstring(p, s) ==
    \E a \in 0..Len(s) : \E b \in a..Len(s) : p = [k \in 1..(b - a) |-> s[a + k]]
IsPrefix(p, s) ==
    \E n \in 0..Len(s) : p = [k \in 1..n |-> s[k]]

\* C8 (as claimed): in exact mode checkPass passes iff the case-folded response
\* equals, character for character, some case-folded acceptable answer, with
\* no whitespace treatment on either side.
C8_ExactIffFoldedEqual ==
    (Evaluated /\ mode = "exact") =>
        (result.passed <=>
            \E k \in 1..Len(acceptable) : fold(actual) = fold(acceptable[k]))

\* What the code does in exact mode: both sides are trimmed before they are
\* folded and compared; nothing else is normalized.
ExactIffTrimmedFoldedEqual ==
    (Evaluated /\ mode = "exact") =>
        (result.passed <=>
            \E k \in 1..Len(acceptable) : fold(trim(actual)) = fold(trim(acceptable[k])))

\* C9: in contains mode a pass implies that the normalized matched answer is a
\* substring of the normalized response, in startsWith mode that it is a prefix
\* of it; and the call passes whenever some acceptable answer is so related.
C9_ContainsStartsWith ==
    Evaluated =>
        /\ mode = "contains" =>
              /\ result.passed =>
                    /\ result.matchedAnswer # <<>>
                    /\ \E k \in 1..Len(acceptable) : acceptable[k] = result.matchedAnswer[1]
                    /\ IsSubstring(norm(result.matchedAnswer[1]), norm(actual))
              /\ (\E k \in 1..Len(acceptable) :
                     IsSubstring(norm(acceptable[k]), norm(actual))) => result.passed
        /\ mode = "startsWith" =>
              /\ result.passed =>
                    /\ result.matchedAnswer # <<>>
                    /\ \E k \in 1..Len(acceptable) : acceptable[k] = result.matchedAnswer[1]
                    /\ IsPrefix(norm(result.matchedAnswer[1]), norm(actual))
              /\ (\E k \in 1..Len(acceptable) :
                     IsPrefix(norm(acceptable[k]), norm(actual))) => result.passed

\* a contains call that passed on its second acceptable answer, which lies in
\* the response but not at its start, the first answer not lying in it
C9_Witness ==
    /\ Evaluated
    /\ mode = "contains"
    /\ result.passed
    /\ Len(acceptable) = 2
    /\ result.matchedAnswer[1] = acceptable[2]
    /\ norm(acceptable[2]) # <<>>
    /\ ~IsSubstring(norm(acceptable[1]), norm(actual))
    /\ ~IsPrefix(norm(acceptable[2]), norm(actual))

\* the three rules of semantic mode for one acceptable answer e
Rule1(e) == norm(actual) = norm(e)
Rule2(e) == \E sep \in {" ", ":", "\n"} : IsPrefix(norm(e) \o <<sep>>, norm(actual))
Rule3(e) == IsPrefix(norm(actual), norm(e))
FirstRule(e) ==
    IF Rule1(e) THEN "exact"
    ELSE IF Rule2(e) THEN "startsWith"
    ELSE IF Rule3(e) THEN "partial"
    ELSE "null"

IsInput(acc, act) == acceptable = acc /\ actual = act

\* C10: in semantic mode (also when no mode is given) the call fails, with
\* matchedAnswer = null and matchType = null, iff no rule holds for any
\* acceptable answer; otherwise the reported matchType is that of the first of
\* the rules exact, startsWith, partial that the matched answer satisfies.
\* The four documented examples come out as documented.
C10_SemanticRules ==
    (Evaluated /\ mode \in {"semantic", "undefined"}) =>
        /\ ~result.passed <=>
              \A k \in 1..Len(acceptable) : FirstRule(acceptable[k]) = "null"
        /\ ~result.passed =>
              result.matchedAnswer = <<>> /\ result.matchType = "null"
        /\ result.passed =>
              /\ result.matchedAnswer # <<>>
              /\ \E k \in 1..Len(acceptable) : acceptable[k] = result.matchedAnswer[1]
              /\ result.matchType = FirstRule(result.matchedAnswer[1])
              /\ result.matchType # "null"
        /\ IsInput(<<T_ls>>, T_ls) => result.matchType = "exact"
        /\ IsInput(<<T_ls>>, T_ls_la) => result.matchType = "startsWith"
        /\ IsInput(<<T_ls_la>>, T_ls) => result.matchType = "partial"
        /\ IsInput(<<T_paris>>, T_lyon) => ~result.passed

\* the documented partial match, with the mode left out
C10_Witness ==
    /\ Evaluated
    /\ mode = "undefined"
    /\ IsInput(<<T_ls_la>>, T_ls)
    /\ result.passed
    /\ result.matchType = "partial"

\* the acceptable answer e matches the response in the call's mode
Matches(e) ==
    CASE mode = "exact" -> fold(trim(actual)) = fold(trim(e))
      [] mode = "contains" -> IsSubstring(norm(e), norm(actual))
      [] mode = "startsWith" -> IsPrefix(norm(e), norm(actual))
      [] OTHER -> FirstRule(e) # "null"

\* C11: in every mode the acceptable answers are tried in list order and the
\* call returns on the first that matches: a passing call reports the earliest
\* matching answer of the list, whatever rule a later answer would match by,
\* and the call passes whenever some answer matches.
C11_FirstMatchWins ==
    Evaluated =>
        /\ result.passed <=> \E k \in 1..Len(acceptable) : Matches(acceptable[k])
        /\ result.passed =>
              \E k \in 1..Len(acceptable) :
                  /\ Matches(acceptable[k])
                  /\ \A j \in 1..(k - 1) : ~Matches(acceptable[j])
                  /\ result.matchedAnswer = <<acceptable[k]>>

\* a semantic call whose first answer matches only partially and whose
\* second, different answer equals the response: the first is reported
C11_Witness ==
    /\ Evaluated
    /\ mode = "semantic"
    /\ norm(actual) # <<>>
    /\ Len(acceptable) = 2
    /\ acceptable[1] # acceptable[2]
    /\ FirstRule(acceptable[1]) = "partial"
    /\ FirstRule(acceptable[2]) = "exact"
    /\ result.passed
    /\ result.matchedAnswer = <<acceptable[1]>>
    /\ result.matchType = "partial"

----------------------------------------------------------------------------
(* BenchmarkCommand.run: the inputs *)

\* most tests of an enumerated dataset
MaxTests == 2

T_pwd == <<"p", "w", "d">>
T_ls_la_nl == T_ls_la \o <<"\n">>
T_ErrorColon == <<"E", "r", "r", "o", "r", ":">>
T_Timeout == <<"T", "i", "m", "e", "o", "u", "t">>
T_boom == <<"b", "o", "o", "m">>
\* the message of the TypeError a for-of loop over undefined throws
T_notIterable == <<"a", "c", "c", "e", "p", "t", "a", "b", "l", "e", " ", "i", "s", " ",
                   "n", "o", "t", " ", "i", "t", "e", "r", "a", "b", "l", "e">>

\* Property names every object inherits from Object.prototype: with such a
\* name as key, a lookup on the object literal {} finds the inherited value.
InheritedKeys == {"constructor"}

\* The test definitions a dataset is made of (its id is its position):
\* the sample test the command itself writes, a startsWith test in a category
\* of its own, and a test without match mode whose category is "constructor".
TestPool ==
    { [prompt |-> "list all files", acceptable |-> <<T_ls, T_ls_la>>,
       category |-> "basic", match |-> "semantic", caseSensitive |-> "undefined"],
      [prompt |-> "show current directory", acceptable |-> <<T_pwd>>,
       category |-> "files", match |-> "startsWith", caseSensitive |-> "false"],
      [prompt |-> "list files", acceptable |-> <<T_ls>>,
       category |-> "constructor", match |-> "undefined", caseSensitive |-> "true"] }

\* Tests of match mode llm-judge, as documented: without acceptable answers,
\* and with one kept as a reference answer.
JudgedPool ==
    { [prompt |-> "Explain how to reset your password",
       category |-> "support", match |-> "llm-judge", caseSensitive |-> "undefined"],
      [prompt |-> "list files", acceptable |-> <<T_ls>>,
       category |-> "support", match |-> "llm-judge", caseSensitive |-> "undefined"] }

Categories == {t.category : t \in TestPool \cup JudgedPool}

Datasets ==
    UNION { { [k \in 1..n |-> [id |-> k] @@ f[k]] : f \in [1..n -> TestPool] }
            : n \in 0..MaxTests }

JudgedDatasets ==
    UNION { { [k \in 1..n |-> [id |-> k] @@ f[k]] : f \in [1..n -> JudgedPool] }
            : n \in 0..MaxTests }

\* The values a dataset file may decode to besides an array of well-formed
\* tests: a test without the optional category, and null in place of a test.
NullTest == [null |-> TRUE]
isNull(test) == "null" \in DOMAIN test

LoosePool ==
    { [prompt |-> "list all files", acceptable |-> <<T_ls, T_ls_la>>,
       category |-> "basic", match |-> "semantic", caseSensitive |-> "undefined"],
      [prompt |-> "list files", acceptable |-> <<T_ls>>,
       match |-> "exact", caseSensitive |-> "undefined"],
      NullTest }

LooseDatasets ==
    UNION { { [k \in 1..n |-> IF isNull(f[k]) THEN f[k] ELSE [id |-> k] @@ f[k]]
              : f \in [1..n -> LoosePool] }
            : n \in 0..MaxTests }

\* what may be found at the dataset path: no file, a file that is not JSON,
\* or a file holding the JSON value null, {} or an array
DatasetKinds == {"missing", "unparsable", "null", "object", "array"}

\* what the inference collaborator may return: a listing with a trailing
\* newline, another command, and a text that begins with "Error:"
Responses == {T_ls_la_nl, T_pwd, T_ErrorColon \o <<" ", "x">>}

\* responses that are empty or whitespace only
BlankResponses == {<<>>, <<" ", "\n">>}

\* the messages of the errors the inference collaborator may raise
ErrorMessages == {T_boom, T_boom \o <<"\n">>}

\* the timeout of the race in milliseconds (no --timeout option given)
timeout == 30000

\* the values Date.now() - startTime may take when the inference call settled
\* the race; when the timer did, the time elapsed is the timeout
Latencies == {1, 2}
elapsed(kind) == IF kind = "TimedOut" THEN {timeout} ELSE Latencies

----------------------------------------------------------------------------
(* BenchmarkCommand.run: helpers *)

Range(f) == {f[k] : k \in DOMAIN f}

RECURSIVE SumOver(_, _)
\* the sum of f[k] for k in S
SumOver(f, S) ==
    IF S = {} THEN 0
    ELSE LET k == CHOOSE x \in S : TRUE IN f[k] + SumOver(f, S \ {k})

\* push adding at the front, as Array.prototype.unshift does
pushFront(arr, x) == <<x>> \o arr

\* Array.prototype.push
push(arr, x) == Append(arr, x)

\* test.match || 'semantic'
matchOrDefault(test) == IF test.match = "undefined" THEN "semantic" ELSE test.match

\* test.caseSensitive ?? false
caseSensitiveOrDefault(test) ==
    IF test.caseSensitive = "undefined" THEN FALSE ELSE test.caseSensitive = "true"

\* categoryResults[c] is truthy: an own bucket, or a value found on the prototype
hasCategory(c) == c \in DOMAIN categoryResults \/ c \in InheritedKeys

\* if (!categoryResults[c]) categoryResults[c] = {passed: 0, total: 0}
initCategory(own, c) ==
    IF c \in DOMAIN own \/ c \in InheritedKeys THEN own
    ELSE own @@ (c :> [passed |-> 0, total |-> 0])

\* categoryResults[c].total++ and categoryResults[c].passed++ on an own bucket
bumpOwn(own, c, field) ==
    IF c \in DOMAIN own THEN [own EXCEPT ![c][field] = @ + 1] ELSE own

\* the same statements when categoryResults[c] is an inherited object: the
\* counter is created on that object, as undefined + 1, which is NaN
bumpInherited(inh, own, c, field) ==
    IF c \notin DOMAIN own /\ c \in DOMAIN inh
    THEN [inh EXCEPT ![c][field] = "NaN"] ELSE inh

\* raceOpen taking any settlement for the race run() awaits
raceOpenAny(j) == pc = "await" /\ settled = <<>>

\* the race of test j is the one run() awaits and it has not settled
raceOpen(j) == pc = "await" /\ j = i + 1 /\ settled = <<>>

\* `Error: ${err.message}`
errorText(message) == T_ErrorColon \o <<" ">> \o message

\* Math.round(sum / n), for sum >= 0 and n > 0
roundDiv(sum, n) == (2 * sum + n) \div (2 * n)

\* test.category, an optional property; as the key of a bucket the value
\* undefined is the string "undefined"
categoryOf(test) ==
    IF "category" \in DOMAIN test THEN test.category ELSE "undefined"

\* test.acceptable, an optional property
acceptableOf(test) ==
    IF "acceptable" \in DOMAIN test THEN test.acceptable ELSE "undefined"

\* the catch block: a rejected race (timeout or inference error), or an error
\* thrown in the try block
caught(test, message, calls) ==
    [passed |-> FALSE,
     response |-> errorText(message),
     failure |-> <<[id |-> test.id, prompt |-> test.prompt,
                    expected |-> acceptableOf(test), actual |-> errorText(message)]>>,
     matched |-> calls]

\* the try block after the await: the verdict on a completed response, which
\* checkPass gives for every match mode; its loop over acceptable throws when
\* the test has none, and the catch block takes over
scoreResponse(test, response) ==
    IF "acceptable" \notin DOMAIN test THEN caught(test, T_notIterable, 1)
    ELSE
    LET r == checkPass(test.acceptable, trim(response),
                       matchOrDefault(test), caseSensitiveOrDefault(test))
    IN  [passed |-> r.passed,
         response |-> response,
         failure |-> IF r.passed THEN <<>>
                     ELSE <<[id |-> test.id, prompt |-> test.prompt,
                             expected |-> test.acceptable, actual |-> trim(response)]>>,
         matched |-> 1]

\* scoreError handing the diagnostic text to the match strategy, as the try
\* block would if the race resolved with it instead of rejecting
scoreErrorViaMatch(test, message) == scoreResponse(test, errorText(message))

\* the catch block after a rejected race (timeout or inference error)
scoreError(test, message) == caught(test, message, 0)

\* the results entering the latency average
validLatencies(all) ==
    {k \in 1..Len(all) : all[k].latencyMs # 0 /\ ~startsWith(all[k].actual, T_ErrorColon)}

avgLatency(all) ==
    LET valid == validLatencies(all)
    IN  IF valid = {} THEN <<>>
        ELSE <<roundDiv(SumOver([k \in valid |-> all[k].latencyMs], valid),
                        Cardinality(valid))>>

\* the BenchmarkResult built after the loop (model path and timestamp left out)
buildResult(n, own, all, fails) ==
    LET totalPassed == SumOver([c \in DOMAIN own |-> own[c].passed], DOMAIN own)
    IN  [summary |-> [total |-> n,
                      passed |-> totalPassed,
                      failed |-> n - totalPassed,
                      passRate |-> [num |-> totalPassed, den |-> n],
                      avgLatencyMs |-> avgLatency(all)],
         categories |-> own,
         results |-> all,
         failures |-> fails]

\* the same statements when tests is the object {}: tests.length is undefined,
\* the loop was not entered, and the arithmetic on undefined gives NaN
buildResultOfObject ==
    [summary |-> [total |-> "undefined",
                  passed |-> 0,
                  failed |-> "NaN",
                  passRate |-> "NaN",
                  avgLatencyMs |-> <<>>],
     categories |-> <<>>,
     results |-> <<>>,
     failures |-> <<>>]

----------------------------------------------------------------------------
(* BenchmarkCommand.run: the actions *)

MatchIdle ==
    /\ acceptable = <<>>
    /\ actual = <<>>
    /\ mode = "undefined"
    /\ caseSensitive = FALSE
    /\ matchResult = <<>>
    /\ normalized = <<>>

\* the component is mounted, the project, the model and the dataset file
\* exist, the file holding one of the datasets D
InitOf(kinds, D) ==
    /\ OtherIdle
    /\ MatchIdle
    /\ JudgeIdle
    /\ dataset \in kinds
    /\ exited = <<>>
    /\ tests \in (IF dataset = "array" THEN D ELSE {<<>>})
    /\ pc = "start"
    /\ status = "loading"
    /\ i = 0
    /\ categoryResults = <<>>
    /\ inherited = [c \in InheritedKeys |-> [passed |-> "undefined", total |-> "undefined"]]
    /\ failures = <<>>
    /\ allResults = <<>>
    /\ inference = [k \in 1..Len(tests) |-> "idle"]
    /\ timer = [k \in 1..Len(tests) |-> "idle"]
    /\ settled = <<>>
    /\ finalResult = <<>>
    /\ results = <<>>
    /\ written = {}
    /\ dispatched = [k \in 1..Len(tests) |-> 0]
    /\ matchCalls = [k \in 1..Len(tests) |-> 0]
    /\ outcomes = <<>>

InitWith(D) == InitOf({"array"}, D)

Init == InitWith(Datasets)

\* run() up to the loop. Without a dataset file a sample is written and the
\* command ends in error; JSON.parse throws on a file that is not JSON; on the
\* value null the loop condition tests.length throws; any other value is
\* taken as the tests and the status becomes 'running'.
Load ==
    /\ pc = "start"
    /\ pc' = IF dataset \in {"missing", "unparsable", "null"} THEN "end" ELSE "loop"
    /\ status' = IF dataset \in {"missing", "unparsable", "null"} THEN "error"
                 ELSE "running"
    /\ written' = IF dataset = "missing" THEN {"sample"} ELSE written
    /\ UNCHANGED <<otherVars, judgeVars, matchVars, dataset, exited, tests, i, categoryResults, inherited, failures,
                   allResults, inference, timer, settled, finalResult, results,
                   dispatched, matchCalls, outcomes>>

\* an iteration whose test is null: reading test.prompt throws outside the
\* try block of the loop, and the catch block of run() sets the error status
DispatchThrows ==
    /\ pc = "loop"
    /\ i < Len(tests)
    /\ isNull(tests[i + 1])
    /\ pc' = "end"
    /\ status' = "error"
    /\ UNCHANGED <<otherVars, judgeVars, matchVars, dataset, exited, tests, i, categoryResults, inherited, failures,
                   allResults, inference, timer, settled, finalResult, results,
                   written, dispatched, matchCalls, outcomes>>

\* one iteration up to the await: the category bucket, the inference call and
\* the timer
Dispatch ==
    /\ pc = "loop"
    /\ i < Len(tests)
    /\ ~isNull(tests[i + 1])
    /\ LET test == tests[i + 1]
           own == initCategory(categoryResults, categoryOf(test))
       IN  /\ categoryResults' = bumpOwn(own, categoryOf(test), "total")
           /\ inherited' = bumpInherited(inherited, own, categoryOf(test), "total")
    /\ inference' = [inference EXCEPT ![i + 1] = "running"]
    /\ timer' = [timer EXCEPT ![i + 1] = "armed"]
    /\ dispatched' = [dispatched EXCEPT ![i + 1] = @ + 1]
    /\ settled' = <<>>
    /\ pc' = "await"
    /\ UNCHANGED <<otherVars, judgeVars, matchVars, dataset, exited, tests, status, i, failures, allResults, finalResult,
                   results, written, matchCalls, outcomes>>

\* InferenceReturns with a promise that fulfils while its process runs on
InferenceReturnsPending(j) ==
    /\ inference[j] = "running"
    /\ raceOpen(j)
    /\ \E r \in Responses : settled' = <<[kind |-> "Completed", text |-> r]>>
    /\ UNCHANGED <<otherVars, judgeVars, matchVars, dataset, exited, tests, pc, status, i, categoryResults, inherited,
                   failures, allResults, inference, timer, finalResult, results, written,
                   dispatched, matchCalls, outcomes>>

\* the inference call of test j fulfils; it settles the race if that is open
InferenceReturns(j) ==
    /\ inference[j] = "running"
    /\ inference' = [inference EXCEPT ![j] = "settled"]
    /\ IF raceOpen(j)
       THEN \E r \in Responses : settled' = <<[kind |-> "Completed", text |-> r]>>
       ELSE UNCHANGED settled
    /\ UNCHANGED <<otherVars, judgeVars, matchVars, dataset, exited, tests, pc, status, i, categoryResults, inherited,
                   failures, allResults, timer, finalResult, results, written,
                   dispatched, matchCalls, outcomes>>

\* the inference call of test j rejects
InferenceRaises(j) ==
    /\ inference[j] = "running"
    /\ inference' = [inference EXCEPT ![j] = "settled"]
    /\ IF raceOpen(j)
       THEN \E m \in ErrorMessages : settled' = <<[kind |-> "Errored", text |-> m]>>
       ELSE UNCHANGED settled
    /\ UNCHANGED <<otherVars, judgeVars, matchVars, dataset, exited, tests, pc, status, i, categoryResults, inherited,
                   failures, allResults, timer, finalResult, results, written,
                   dispatched, matchCalls, outcomes>>

\* TimerFires with a callback that does not reject
TimerFiresSilently(j) ==
    /\ timer[j] = "armed"
    /\ timer' = [timer EXCEPT ![j] = "fired"]
    /\ UNCHANGED <<otherVars, judgeVars, matchVars, dataset, exited, tests, pc, status, i, categoryResults, inherited,
                   failures, allResults, inference, settled, finalResult, results,
                   written, dispatched, matchCalls, outcomes>>

\* the timer of test j fires and rejects with Error('Timeout'); no timer is
\* ever cleared
TimerFires(j) ==
    /\ timer[j] = "armed"
    /\ timer' = [timer EXCEPT ![j] = "fired"]
    /\ IF raceOpen(j)
       THEN settled' = <<[kind |-> "TimedOut", text |-> T_Timeout]>>
       ELSE UNCHANGED settled
    /\ UNCHANGED <<otherVars, judgeVars, matchVars, dataset, exited, tests, pc, status, i, categoryResults, inherited,
                   failures, allResults, inference, finalResult, results, written,
                   dispatched, matchCalls, outcomes>>

\* the rest of the iteration, run when the race has settled: the verdict, the
\* counters, the failures list and the result
Resume ==
    /\ pc = "await"
    /\ settled # <<>>
    /\ \E latencyMs \in elapsed(settled[1].kind) :
         LET test == tests[i + 1]
             s == IF settled[1].kind = "Completed"
                  THEN scoreResponse(test, settled[1].text)
                  ELSE scoreError(test, settled[1].text)
         IN  /\ categoryResults' =
                   IF s.passed THEN bumpOwn(categoryResults, categoryOf(test), "passed")
                   ELSE categoryResults
             /\ inherited' =
                   IF s.passed
                   THEN bumpInherited(inherited, categoryResults, categoryOf(test), "passed")
                   ELSE inherited
             /\ failures' = IF s.failure = <<>> THEN failures
                            ELSE push(failures, s.failure[1])
             /\ allResults' = push(allResults,
                                   [id |-> test.id, prompt |-> test.prompt,
                                    expected |-> acceptableOf(test),
                                    actual |-> trim(s.response),
                                    passed |-> s.passed,
                                    category |-> categoryOf(test),
                                    latencyMs |-> latencyMs])
             /\ matchCalls' = [matchCalls EXCEPT ![i + 1] = @ + s.matched]
             /\ IF settled[1].kind = "Completed" /\ "acceptable" \in DOMAIN test
                THEN /\ acceptable' = test.acceptable
                     /\ actual' = trim(settled[1].text)
                     /\ mode' = matchOrDefault(test)
                     /\ caseSensitive' = caseSensitiveOrDefault(test)
                     /\ matchResult' = <<checkPass(test.acceptable, trim(settled[1].text),
                                                   matchOrDefault(test),
                                                   caseSensitiveOrDefault(test))>>
                     /\ UNCHANGED normalized
                ELSE UNCHANGED matchVars
    /\ outcomes' = Append(outcomes, settled[1])
    /\ settled' = <<>>
    /\ i' = i + 1
    /\ pc' = "loop"
    /\ UNCHANGED <<otherVars, judgeVars, dataset, exited, tests, status, inference, timer, finalResult, results,
                   written, dispatched>>

\* after the loop: the summary, then the two files, either write may throw
Finish ==
    /\ pc = "loop"
    /\ i >= Len(tests)
    /\ LET fr == IF dataset = "object" THEN buildResultOfObject
                 ELSE buildResult(Len(tests), categoryResults, allResults, failures)
       IN  /\ finalResult' = <<fr>>
           /\ \/ /\ written' = {"json", "md"}
                 /\ results' = <<fr>>
                 /\ status' = "done"
              \/ /\ written' \in {{}, {"json"}}
                 /\ results' = results
                 /\ status' = "error"
    /\ pc' = "end"
    /\ UNCHANGED <<otherVars, judgeVars, matchVars, dataset, exited, tests, i, categoryResults, inherited, failures,
                   allResults, inference, timer, settled, dispatched, matchCalls,
                   outcomes>>

Next ==
    \/ Load
    \/ Dispatch
    \/ \E j \in 1..Len(tests) : InferenceReturns(j)
    \/ \E j \in 1..Len(tests) : InferenceRaises(j)
    \/ \E j \in 1..Len(tests) : TimerFires(j)
    \/ Resume
    \/ Finish

Spec == Init /\ [][Next]_vars

\* A step of Resume, told by its control state alone: under Next only Resume
\* takes pc from "await" to "loop", and Resume can run whenever the race has
\* settled. (Fairness is stated on it to keep ENABLED free of checkPass.)
ResumeRuns == pc = "await" /\ settled # <<>> /\ pc' = "loop"

\* The event loop runs every continuation that is ready and a timer that is
\* armed fires; nothing makes the inference call settle. The datasets are those
\* made of the sample test alone: what a test holds does not steer the loop.
FairInit == Init /\ \A k \in 1..Len(tests) : tests[k].category = "basic"

FairSpec ==
    /\ FairInit
    /\ [][Next]_vars
    /\ WF_vars(Load)
    /\ WF_vars(Dispatch)
    /\ WF_pc(ResumeRuns)
    /\ WF_vars(Finish)
    /\ \A j \in 1..MaxTests : WF_vars(j <= Len(tests) /\ TimerFires(j))

\* the runs over datasets of llm-judge tests
JudgedInit == InitWith(JudgedDatasets)
JudgedSpec == JudgedInit /\ [][Next]_vars

\* useInput: Esc or Enter calls exit(), which unmounts the component; run()
\* is not told, and nothing ends the process
Cancel ==
    /\ exited = <<>>
    /\ pc # "end"
    /\ exited' = <<SumOver(dispatched, DOMAIN dispatched)>>
    /\ UNCHANGED <<otherVars, judgeVars, matchVars, dataset, tests, pc, status, i, categoryResults,
                   inherited, failures, allResults, inference, timer, settled, finalResult,
                   results, written, dispatched, matchCalls, outcomes>>

\* the runs the user may cancel, over the datasets made of the sample test
CancelNext == Next \/ Cancel
CancelSpec == FairInit /\ [][CancelNext]_vars

\* InferenceReturns for a call that returns nothing to read
InferenceReturnsBlank(j) ==
    /\ inference[j] = "running"
    /\ inference' = [inference EXCEPT ![j] = "settled"]
    /\ IF raceOpen(j)
       THEN \E r \in BlankResponses : settled' = <<[kind |-> "Completed", text |-> r]>>
       ELSE UNCHANGED settled
    /\ UNCHANGED <<otherVars, judgeVars, matchVars, dataset, exited, tests, pc, status, i, categoryResults, inherited,
                   failures, allResults, timer, finalResult, results, written,
                   dispatched, matchCalls, outcomes>>

\* checkPass called on its own, and called by the runs over the datasets
\* made of the sample test, a semantic one, blank responses included
SemanticInit == MatchInit \/ FairInit
SemanticNext ==
    \/ MatchNext
    \/ Next
    \/ \E j \in 1..Len(tests) : InferenceReturnsBlank(j)
SemanticSpec == SemanticInit /\ [][SemanticNext]_vars

\* the runs over whatever the dataset path holds
DatasetInit == InitOf(DatasetKinds, LooseDatasets)
DatasetNext == Next \/ DispatchThrows
DatasetSpec == DatasetInit /\ [][DatasetNext]_vars

----------------------------------------------------------------------------
(* Properties of BenchmarkCommand.run *)

AtLoopHead == pc \in {"loop", "end"}
Ended == pc = "end"
summary == finalResult[1].summary

\* the tests among the first n with category c, and those of them that passed
TestsOf(c, n) == {k \in 1..n : tests[k].category = c}
PassedOf(c, n) == {k \in TestsOf(c, n) : allResults[k].passed}

FailedResults == {k \in 1..Len(allResults) : ~allResults[k].passed}

\* the state of test k in the per-test state machine
TestState(k) ==
    IF k <= Len(allResults) THEN "Recorded"
    ELSE IF pc = "await" /\ k = i + 1
         THEN IF settled = <<>> THEN "Dispatched" ELSE settled[1].kind
         ELSE "Pending"

\* C1 (as claimed): after any prefix of the loop and at the end of the run,
\* every category c with processed tests has a bucket whose total is the
\* number of processed tests of category c and whose passed counter is the
\* number of those that passed, with 0 <= passed <= total.
C1_CategoryAggregation ==
    AtLoopHead =>
        \A c \in Categories :
            TestsOf(c, i) # {} =>
                /\ c \in DOMAIN categoryResults
                /\ categoryResults[c].total = Cardinality(TestsOf(c, i))
                /\ categoryResults[c].passed = Cardinality(PassedOf(c, i))
                /\ 0 <= categoryResults[c].passed
                /\ categoryResults[c].passed <= categoryResults[c].total

\* What holds: the same for every category whose name is not a property that
\* objects inherit; the tests of the other categories are counted nowhere.
OwnCategoryAggregation ==
    AtLoopHead =>
        /\ \A c \in Categories \ InheritedKeys :
              TestsOf(c, i) # {} =>
                  /\ c \in DOMAIN categoryResults
                  /\ categoryResults[c].total = Cardinality(TestsOf(c, i))
                  /\ categoryResults[c].passed = Cardinality(PassedOf(c, i))
        /\ \A c \in InheritedKeys : c \notin DOMAIN categoryResults

\* C2 (as claimed): the final summary has total = N, passed + failed = total,
\* failed = the number of results with passed = false, passRate = passed/total.
C2_SummaryCounts ==
    Ended =>
        /\ summary.total = Len(tests)
        /\ summary.passed + summary.failed = summary.total
        /\ summary.failed = Cardinality(FailedResults)
        /\ summary.passRate = [num |-> summary.passed, den |-> summary.total]

\* C3: every test is dispatched to the inference collaborator at most once,
\* exactly once when it has been recorded, and yields exactly one result; the
\* results are those of the tests in input order, and at the end there are N.
C3_OneResultPerTestInOrder ==
    /\ \A k \in 1..Len(tests) :
          /\ dispatched[k] <= 1
          /\ TestState(k) # "Pending" => dispatched[k] = 1
    /\ Len(allResults) = i
    /\ Len(allResults) <= Len(tests)
    /\ \A k \in 1..Len(allResults) :
          /\ allResults[k].id = tests[k].id
          /\ allResults[k].prompt = tests[k].prompt
          /\ allResults[k].expected = tests[k].acceptable
          /\ allResults[k].category = tests[k].category
          /\ Cardinality({n \in 1..Len(allResults) : allResults[n].id = tests[k].id}) = 1
    /\ Ended =>
          /\ Len(allResults) = Len(tests)
          /\ finalResult[1].results = allResults
          /\ \A k \in 1..Len(tests) : dispatched[k] = 1

\* a finished run of two tests, the first timed out, the second raised
C3_Witness ==
    /\ Ended
    /\ Len(tests) = 2
    /\ outcomes[1].kind = "TimedOut"
    /\ outcomes[2].kind = "Errored"
    /\ Len(finalResult[1].results) = 2

LegalStep(a, b) ==
    \/ a = b
    \/ a = "Pending" /\ b = "Dispatched"
    \/ a = "Dispatched" /\ b \in {"Completed", "TimedOut", "Errored"}
    \/ a \in {"Completed", "TimedOut", "Errored"} /\ b = "Recorded"

\* C4: whatever the inference calls do, every test of the dataset goes
\* Dispatched -> (Completed | TimedOut | Errored) -> Recorded and is eventually
\* recorded, and the run eventually ends with all N tests recorded, given that
\* an armed timer eventually fires.
C4_EveryTestRecorded ==
    /\ [][\A k \in 1..Len(tests) : LegalStep(TestState(k), TestState(k)')]_vars
    /\ <>(pc = "end" /\ \A k \in 1..Len(tests) : TestState(k) = "Recorded")

\* the last test of a full dataset is recorded as timed out while the
\* inference call of every test is still running
C4_Witness ==
    /\ Len(tests) = MaxTests
    /\ Len(allResults) = Len(tests)
    /\ \A k \in 1..Len(tests) : outcomes[k].kind = "TimedOut" /\ inference[k] = "running"

\* C5: a test whose race was won by the timer or whose inference call raised
\* is recorded with passed = false and the diagnostic text as actual response,
\* no checkPass call was made for it, it is in the failures list, and its
\* category's passed counter counts completed passing tests only.
C5_TimeoutOrErrorIsFailure ==
    /\ \A k \in 1..Len(allResults) :
          outcomes[k].kind \in {"TimedOut", "Errored"} =>
              /\ ~allResults[k].passed
              /\ allResults[k].actual = trim(errorText(outcomes[k].text))
              /\ outcomes[k].kind = "TimedOut" =>
                    allResults[k].actual = errorText(T_Timeout)
              /\ matchCalls[k] = 0
              /\ \E n \in 1..Len(failures) :
                    /\ failures[n].id = tests[k].id
                    /\ failures[n].prompt = tests[k].prompt
                    /\ failures[n].expected = tests[k].acceptable
                    /\ failures[n].actual = errorText(outcomes[k].text)
    /\ \A c \in DOMAIN categoryResults :
          categoryResults[c].passed =
              Cardinality({k \in PassedOf(c, Len(allResults)) :
                              outcomes[k].kind = "Completed"})
    /\ \A c \in DOMAIN inherited :
          inherited[c].passed = "NaN" =>
              \E k \in PassedOf(c, Len(allResults)) : outcomes[k].kind = "Completed"

\* a timed-out test and a test whose inference call raised, both of a category
\* whose other test had passed
C5_Witness ==
    /\ Len(allResults) = 2
    /\ outcomes[1].kind = "Errored"
    /\ outcomes[2].kind = "TimedOut"
    /\ Len(failures) = 2
    /\ tests[1].category = "basic"
    /\ tests[2].category = "basic"
    /\ categoryResults["basic"] = [passed |-> 0, total |-> 2]

failureOf(r) == [id |-> r.id, prompt |-> r.prompt, expected |-> r.expected,
                 actual |-> r.actual]
IsFailed(r) == ~r.passed

\* C6 (as claimed): at the end of the run the failures list is the
\* subsequence of the results with passed = false, in input order, each entry
\* holding the id, prompt, expected and actual of its result.
C6_FailuresAreFailedResults ==
    Ended =>
        LET failed == SelectSeq(allResults, IsFailed)
        IN  finalResult[1].failures = [n \in 1..Len(failed) |-> failureOf(failed[n])]

\* What holds: the same up to surrounding whitespace of the actual text.
FailuresAreFailedResultsTrimmed ==
    Ended =>
        LET failed == SelectSeq(allResults, IsFailed)
            fs == finalResult[1].failures
        IN  /\ Len(fs) = Len(failed)
            /\ \A n \in 1..Len(fs) :
                  [fs[n] EXCEPT !.actual = trim(@)] = failureOf(failed[n])

CompletedTests == {k \in 1..Len(outcomes) : outcomes[k].kind = "Completed"}

\* C7 (as claimed): avgLatencyMs is the mean of latencyMs over exactly the
\* tests whose inference call completed (no error, no timeout), and it is
\* undefined when there is no such test.
C7_AvgLatencyOverCompleted ==
    Ended =>
        /\ CompletedTests = {} <=> summary.avgLatencyMs = <<>>
        /\ CompletedTests # {} =>
              summary.avgLatencyMs[1] * Cardinality(CompletedTests) =
                  SumOver([k \in CompletedTests |-> allResults[k].latencyMs],
                          CompletedTests)

\* C12 (as claimed): a recorded test of match mode llm-judge whose inference
\* call completed was scored by the judge, not by a string-matching strategy:
\* checkPass was not called for it, its result carries the judge's score, and
\* a test without acceptable answers is recorded with the response it got.
C12_JudgeScoredUsesJudge ==
    \A k \in 1..Len(allResults) :
        (tests[k].match = "llm-judge" /\ outcomes[k].kind = "Completed") =>
            /\ matchCalls[k] = 0
            /\ "judgeScore" \in DOMAIN allResults[k]
            /\ allResults[k].actual = trim(outcomes[k].text)

----------------------------------------------------------------------------
(* JSON texts: JSON.parse and JSON.stringify *)

\* the backslash, and the fence of three backticks that opens and closes a
\* markdown code block
BS == "bs"
FENCE == "fence"

Digits == <<"0", "1", "2", "3", "4", "5", "6", "7", "8", "9">>
IsDigit(c) == \E d \in 1..10 : Digits[d] = c
DigitVal(c) == (CHOOSE d \in 1..10 : Digits[d] = c) - 1

\* JSON whitespace
JsonWs(c) == c \in {" ", "\n", "\t", "\r"}

\* A JSON value: its type and its payload (an integer, a text, a boolean, or a
\* function from keys to values; <<>> for null)
JNumber(n) == [type |-> "number", v |-> n]
JString(t) == [type |-> "string", v |-> t]
JBoolean(b) == [type |-> "boolean", v |-> b]
JNull == [type |-> "null", v |-> <<>>]
JObject(o) == [type |-> "object", v |-> o]

\* the outcome of a parsing step: failure, or the value read and the position
\* after it
Fail == [ok |-> FALSE, val |-> <<>>, next |-> 0]
Ok(v, n) == [ok |-> TRUE, val |-> <<v>>, next |-> n]

RECURSIVE skipWs(_, _)
skipWs(t, p) == IF p <= Len(t) /\ JsonWs(t[p]) THEN skipWs(t, p + 1) ELSE p

\* the character an escape sequence stands for, <<>> if there is none
unescape(c) ==
    CASE c = DQ -> <<DQ>>
      [] c = BS -> <<BS>>
      [] c = "/" -> <<"/">>
      [] c = "n" -> <<"\n">>
      [] c = "t" -> <<"\t">>
      [] c = "r" -> <<"\r">>
      [] OTHER -> <<>>

RECURSIVE scanString(_, _, _)
\* a string from the position after its opening quote; acc is what was read
scanString(t, p, acc) ==
    IF p > Len(t) THEN Fail
    ELSE IF t[p] = DQ THEN Ok(JString(acc), p + 1)
    ELSE IF t[p] = BS
    THEN IF p + 1 <= Len(t) /\ unescape(t[p + 1]) # <<>>
         THEN scanString(t, p + 2, acc \o unescape(t[p + 1]))
         ELSE Fail
    ELSE IF t[p] \in {"\n", "\t", "\r"} THEN Fail
    ELSE scanString(t, p + 1, Append(acc, t[p]))

RECURSIVE scanDigits(_, _, _)
scanDigits(t, p, n) ==
    IF p <= Len(t) /\ IsDigit(t[p]) THEN scanDigits(t, p + 1, 10 * n + DigitVal(t[p]))
    ELSE [n |-> n, next |-> p]

\* an integer: an optional minus sign, then 0 or a digit string without
\* leading zero
parseNumber(t, p) ==
    LET neg == t[p] = "-"
        q == IF neg THEN p + 1 ELSE p
    IN  IF q > Len(t) \/ ~IsDigit(t[q]) THEN Fail
        ELSE IF t[q] = "0" THEN Ok(JNumber(0), q + 1)
        ELSE LET d == scanDigits(t, q, 0)
             IN  Ok(JNumber(IF neg THEN 0 - d.n ELSE d.n), d.next)

RECURSIVE parseValue(_, _)
RECURSIVE parseMembers(_, _, _)

\* the members of an object from the first key on; a later member of the same
\* key replaces the earlier
parseMembers(t, p, obj) ==
    IF p > Len(t) \/ t[p] # DQ THEN Fail
    ELSE LET k == scanString(t, p + 1, <<>>)
         IN  IF ~k.ok THEN Fail
             ELSE LET c == skipWs(t, k.next)
                  IN  IF c > Len(t) \/ t[c] # ":" THEN Fail
                      ELSE LET m == parseValue(t, c + 1)
                           IN  IF ~m.ok THEN Fail
                               ELSE LET e == skipWs(t, m.next)
                                        o == (k.val[1].v :> m.val[1]) @@ obj
                                    IN  IF e > Len(t) THEN Fail
                                        ELSE IF t[e] = "}" THEN Ok(JObject(o), e + 1)
                                        ELSE IF t[e] = ","
                                        THEN parseMembers(t, skipWs(t, e + 1), o)
                                        ELSE Fail

parseValue(t, p0) ==
    LET p == skipWs(t, p0)
    IN  IF p > Len(t) THEN Fail
        ELSE IF t[p] = "{"
        THEN LET q == skipWs(t, p + 1)
             IN  IF q <= Len(t) /\ t[q] = "}" THEN Ok(JObject(<<>>), q + 1)
                 ELSE parseMembers(t, q, <<>>)
        ELSE IF t[p] = DQ THEN scanString(t, p + 1, <<>>)
        ELSE IF t[p] = "-" \/ IsDigit(t[p]) THEN parseNumber(t, p)
        ELSE IF t[p] = "true" THEN Ok(JBoolean(TRUE), p + 1)
        ELSE IF t[p] = "false" THEN Ok(JBoolean(FALSE), p + 1)
        ELSE IF t[p] = "null" THEN Ok(JNull, p + 1)
        ELSE Fail

\* JSON.parse: <<the value>>, or <<>> when it throws a SyntaxError
JSONparse(t) ==
    LET r == parseValue(t, 1)
    IN  IF r.ok /\ skipWs(t, r.next) > Len(t) THEN r.val ELSE <<>>

\* An object as JSON.stringify reads it: its entries in insertion order, each
\* a key k and a value val
JEntries(es) == [type |-> "entries", v |-> es]

\* the escape sequence JSON.stringify writes for a character of a string
escape(c) ==
    CASE c = DQ -> <<BS, DQ>>
      [] c = BS -> <<BS, BS>>
      [] c = "\n" -> <<BS, "n">>
      [] c = "\t" -> <<BS, "t">>
      [] c = "\r" -> <<BS, "r">>
      [] OTHER -> <<c>>

RECURSIVE quote(_)
\* the characters of a string, escaped
quote(t) == IF t = <<>> THEN <<>> ELSE escape(Head(t)) \o quote(Tail(t))

RECURSIVE digitsOf(_)
digitsOf(n) ==
    IF n < 10 THEN <<Digits[n + 1]>> ELSE digitsOf(n \div 10) \o <<Digits[(n % 10) + 1]>>

RECURSIVE stringify(_)
RECURSIVE stringifyEntries(_)

stringifyEntries(es) ==
    IF es = <<>> THEN <<>>
    ELSE <<DQ>> \o quote(es[1].k) \o <<DQ, ":">> \o stringify(es[1].val)
         \o (IF Len(es) > 1 THEN <<",">> \o stringifyEntries(Tail(es)) ELSE <<>>)

\* JSON.stringify(value)
stringify(x) ==
    CASE x.type = "number" -> IF x.v < 0 THEN <<"-">> \o digitsOf(0 - x.v) ELSE digitsOf(x.v)
      [] x.type = "string" -> <<DQ>> \o quote(x.v) \o <<DQ>>
      [] x.type = "boolean" -> IF x.v THEN <<"true">> ELSE <<"false">>
      [] x.type = "null" -> <<"null">>
      [] x.type = "entries" -> <<"{">> \o stringifyEntries(x.v) \o <<"}">>

----------------------------------------------------------------------------
(* lib/judge.ts *)

JUDGE_CRITERIA ==
    [n \in {"helpful", "accurate", "concise", "safe", "relevant"} |->
        [name |-> n,
         description |->
            CASE n = "helpful" ->
                   "Response addresses the user's needs and provides useful information"
              [] n = "accurate" -> "Response is factually correct and free of errors"
              [] n = "concise" ->
                   "Response is appropriately brief without unnecessary verbosity"
              [] n = "safe" -> "Response avoids harmful, toxic, or inappropriate content"
              [] n = "relevant" ->
                   "Response stays on topic and directly addresses the prompt"]]

\* What JUDGE_CRITERIA[name] gives for a name the object literal inherits from
\* Object.prototype: the function Object, whose name is 'Object' and which has
\* no description
ObjectFunction == [name |-> "Object", description |-> "undefined"]

\* JUDGE_CRITERIA[name]: <<>> when undefined
lookupCriterion(name) ==
    IF name \in DOMAIN JUDGE_CRITERIA THEN <<JUDGE_CRITERIA[name]>>
    ELSE IF name \in InheritedKeys THEN <<ObjectFunction>>
    ELSE <<>>

\* resolveCriteria(names); ns is <<>> for undefined, <<names>> otherwise
resolveCriteria(ns) ==
    LET criteriaNames == IF ns # <<>> /\ Len(ns[1]) > 0 THEN ns[1]
                         ELSE <<"helpful", "accurate", "concise">>
    IN  [k \in 1..Len(criteriaNames) |->
            LET found == lookupCriterion(criteriaNames[k])
            IN  IF found # <<>> THEN found[1]
                ELSE [name |-> criteriaNames[k], description |-> criteriaNames[k]]]

RECURSIVE skipSpace(_, _, _)
\* the position after the run of \s characters that starts at p, before b
skipSpace(t, p, b) == IF p < b /\ IsSpace(t[p]) THEN skipSpace(t, p + 1, b) ELSE p

\* jsonStr.match of the code block pattern: <<>> when there is no match, else
\* <<the captured group>>. The pattern is not anchored: the match starts at the
\* first fence that a later fence follows, skips a json tag and whitespace, and
\* lazily captures up to the next fence.
codeBlockMatch(t) ==
    LET fences == {p \in 1..Len(t) : t[p] = FENCE}
    IN  IF Cardinality(fences) < 2 THEN <<>>
        ELSE LET a == CHOOSE p \in fences : \A q \in fences : p <= q
                 b == CHOOSE p \in fences \ {a} : \A q \in fences \ {a} : p <= q
                 p1 == IF t[a + 1] = "json" THEN a + 2 ELSE a + 1
                 p2 == skipSpace(t, p1, b)
             IN  <<SubSeq(t, p2, b - 1)>>

\* x[key] for a JSON value x: <<>> when undefined
getProp(x, key) ==
    IF x.type = "object" /\ key \in DOMAIN x.v THEN <<x.v[key]>> ELSE <<>>

\* typeof x === ty, for x = <<>> (undefined) or <<a JSON value>>
typeofIs(x, ty) == x # <<>> /\ x[1].type = ty

MathMin(a, b) == IF a < b THEN a ELSE b
MathMax(a, b) == IF a > b THEN a ELSE b

\* clamp without its upper limit
clampNoUpper(raw) == MathMax(0, raw)

\* Math.max(0, Math.min(10, raw))
clamp(raw) == MathMax(0, MathMin(10, raw))

RECURSIVE extractScores(_, _, _, _)
\* the loop over criteria, from criterion k on
extractScores(parsed, crit, k, criteriaScores) ==
    IF k > Len(crit) THEN criteriaScores
    ELSE LET scores == getProp(parsed, <<"scores">>)
             raw == IF scores = <<>> THEN <<>> ELSE getProp(scores[1], <<crit[k].name>>)
         IN  extractScores(parsed, crit, k + 1,
                 IF typeofIs(raw, "number")
                 THEN (crit[k].name :> clamp(raw[1].v)) @@ criteriaScores
                 ELSE criteriaScores)

\* the outcome of a call: the value returned, or the error raised
Returned(x) == [raised |-> FALSE, value |-> <<x>>, error |-> ""]
Raised(e) == [raised |-> TRUE, value |-> <<>>, error |-> e]

\* the pass flag derived from the threshold whatever the reply says
passOfThresholdOnly(pass, overall, threshold) == overall >= threshold

\* typeof parsed.pass === 'boolean' ? parsed.pass : overall >= passThreshold
passOf(pass, overall, threshold) ==
    IF typeofIs(pass, "boolean") THEN pass[1].v ELSE overall >= threshold

\* the text handed to JSON.parse
jsonStrOf(text) ==
    LET codeBlock == codeBlockMatch(trim(text))
    IN  IF codeBlock # <<>> THEN trim(codeBlock[1]) ELSE trim(text)

\* lines 165-186: the JudgeResult made of the parsed reply; reading a property
\* of null throws a TypeError
judgeResultOf(parsed, crit, threshold) ==
    IF parsed.type = "null" THEN Raised("TypeError")
    ELSE LET o == getProp(parsed, <<"overall">>)
             overall == IF typeofIs(o, "number") THEN clamp(o[1].v) ELSE 0
             r == getProp(parsed, <<"reasoning">>)
         IN  Returned([pass |-> passOf(getProp(parsed, <<"pass">>), overall, threshold),
                       score |-> overall,
                       reasoning |-> IF typeofIs(r, "string") THEN r[1].v ELSE <<>>,
                       criteriaScores |-> extractScores(parsed, crit, 1, <<>>)])

\* parseJudgeResponse returning a zeroed result where JSON.parse throws
parseJudgeResponseLenient(text, crit, threshold) ==
    LET parsed == JSONparse(jsonStrOf(text))
    IN  IF parsed = <<>>
        THEN Returned([pass |-> FALSE, score |-> 0, reasoning |-> <<>>,
                       criteriaScores |-> <<>>])
        ELSE judgeResultOf(parsed[1], crit, threshold)

parseJudgeResponse(text, crit, threshold) ==
    LET parsed == JSONparse(jsonStrOf(text))
    IN  IF parsed = <<>> THEN Raised("SyntaxError")
        ELSE judgeResultOf(parsed[1], crit, threshold)

T_FailedToParse == <<"Failed to parse judge response: ">>

\* callJudge once generateText has fulfilled with text: the try block
callJudgeParse(text, crit, threshold) ==
    LET r == parseJudgeResponse(text, crit, threshold)
    IN  IF r.raised
        THEN Returned([pass |-> FALSE, score |-> 0,
                       reasoning |-> T_FailedToParse \o text,
                       criteriaScores |-> <<>>])
        ELSE r

----------------------------------------------------------------------------
(* Specification CriteriaSpec: resolveCriteria on enumerated name lists *)

\* longest list of criterion names enumerated
MaxNames == 2

\* the built-in names, a name of the user's own, and a name every object
\* inherits a property of
CriterionNames == DOMAIN JUDGE_CRITERIA \cup {"custom_criterion"} \cup InheritedKeys

NameLists ==
    {<<>>} \cup {<<ns>> : ns \in UNION {[1..n -> CriterionNames] : n \in 0..MaxNames}}

CriteriaInit ==
    /\ OtherIdle
    /\ MatchIdle
    /\ RunIdle
    /\ names \in NameLists
    /\ resolved = <<>>
    /\ criteria = <<>>
    /\ passThreshold = 0
    /\ reply = <<>>
    /\ judgePc = "resolve"
    /\ parseOut = <<>>
    /\ judgeOut = <<>>

Resolve ==
    /\ judgePc = "resolve"
    /\ resolved' = <<resolveCriteria(names)>>
    /\ judgePc' = "resolved"
    /\ UNCHANGED <<otherVars, matchVars, runVars, names, criteria, passThreshold, reply, parseOut,
                   judgeOut>>

CriteriaNext == Resolve

CriteriaSpec == CriteriaInit /\ [][CriteriaNext]_vars

----------------------------------------------------------------------------
(* Properties of resolveCriteria *)

BuiltInNames == {"helpful", "accurate", "concise", "safe", "relevant"}

\* what the claim requires of the criterion resolved for the name n
ExpectedCriterion(n) ==
    IF n \in BuiltInNames THEN JUDGE_CRITERIA[n] ELSE [name |-> n, description |-> n]

\* the result required for the name list ns
ExpectedCriteria(ns) ==
    IF ns = <<>> \/ ns[1] = <<>>
    THEN <<JUDGE_CRITERIA["helpful"], JUDGE_CRITERIA["accurate"], JUDGE_CRITERIA["concise"]>>
    ELSE [k \in 1..Len(ns[1]) |-> ExpectedCriterion(ns[1][k])]

\* C19 (as claimed): resolveCriteria returns, for an absent or empty list, the
\* criteria helpful, accurate, concise in that order, and otherwise a list of
\* the input's length and order in which every built-in name has its registry
\* entry and every other name n the criterion {name: n, description: n}.
C19_ResolveCriteria ==
    judgePc = "resolved" => resolved[1] = ExpectedCriteria(names)

\* What holds: the same, for the names that are not names of properties the
\* registry object inherits.
ResolveCriteriaOwnNames ==
    (/\ judgePc = "resolved"
     /\ names # <<>> => \A k \in 1..Len(names[1]) : names[1][k] \notin InheritedKeys)
        => resolved[1] = ExpectedCriteria(names)

----------------------------------------------------------------------------
(* Specification JudgeSpec: parseJudgeResponse and callJudge on enumerated
   replies *)

\* longest reply enumerated character by character
MaxReplyLen == 3

\* the characters of those replies
ReplyChars == {"{", "}", DQ, "0", "1", "null", FENCE, " ", "x"}

RawTexts == UNION {[1..n -> ReplyChars] : n \in 0..MaxReplyLen}

T_notJson == <<"not", " ", "json", " ", "at", " ", "all">>

\* The members a reply object may have, each absent, of the type asked for,
\* or of another type
Member(key, x) == <<[k |-> <<key>>, val |-> x]>>

ScoresMembers ==
    { <<>>,
      Member("scores", JEntries(<<>>)),
      Member("scores", JEntries(Member("helpful", JNumber(8)))),
      Member("scores", JEntries(Member("helpful", JNumber(15))
                                \o Member("accurate", JNumber(0 - 3)))),
      Member("scores", JEntries(Member("helpful", JString(<<"x">>))
                                \o Member("accurate", JNumber(9)))) }

OverallMembers ==
    {<<>>, Member("overall", JString(<<"7">>))}
    \cup {Member("overall", JNumber(n)) : n \in {0 - 3, 5, 7, 15}}

\* a plain reasoning, one that quotes a code block, one that holds characters
\* JSON.stringify escapes
ReasoningMembers ==
    { <<>>,
      Member("reasoning", JString(<<"Good", " ", "response">>)),
      Member("reasoning", JString(<<"see", " ", FENCE, "7", FENCE>>)),
      Member("reasoning", JString(<<DQ, "ok", DQ, "\n", BS>>)) }

PassMembers ==
    { <<>>,
      Member("pass", JBoolean(TRUE)),
      Member("pass", JBoolean(FALSE)),
      Member("pass", JString(<<"yes">>)) }

ReplyObjects ==
    { JEntries(sc \o ov \o re \o pa) :
        sc \in ScoresMembers, ov \in OverallMembers,
        re \in ReasoningMembers, pa \in PassMembers }

\* how a reply object reaches the parser: as its JSON text, bare or between
\* blank lines, in a fenced code block, in a code block within prose, or cut
\* short of its closing brace
Wraps == {"bare", "padded", "fenced", "prose", "truncated"}

wrap(w, json) ==
    CASE w = "bare" -> json
      [] w = "padded" -> <<"\n", " ">> \o json \o <<" ", "\n">>
      [] w = "fenced" -> <<FENCE, "json", "\n">> \o json \o <<"\n", FENCE>>
      [] w = "prose" -> <<"Here", " ", "is", " ", "my", " ", "evaluation", ":", "\n", FENCE, "\n">>
                        \o json \o <<FENCE, "\n", "Thanks">>
      [] w = "truncated" -> SubSeq(json, 1, Len(json) - 1)

\* a reply: its text, and the object and the wrapping it was made of (<<>> and
\* "raw" for a text enumerated as such)
Replies ==
    {[text |-> t, src |-> <<>>, wrap |-> "raw"] : t \in RawTexts \cup {T_notJson}}
    \cup {[text |-> wrap(w, stringify(o)), src |-> <<o>>, wrap |-> w] :
             o \in ReplyObjects, w \in Wraps}

CriteriaLists ==
    { <<>>,
      <<JUDGE_CRITERIA["helpful"]>>,
      <<JUDGE_CRITERIA["helpful"], JUDGE_CRITERIA["accurate"]>> }

\* the thresholds the callers pass: 5 (judge configure) and 7 (the default)
Thresholds == {5, 7}

\* the messages of the errors generateText may reject with
TransportErrors == {"fetch failed", "Unauthorized"}

JudgeInit ==
    /\ OtherIdle
    /\ MatchIdle
    /\ RunIdle
    /\ names = <<>>
    /\ resolved = <<>>
    /\ criteria \in CriteriaLists
    /\ passThreshold \in Thresholds
    /\ reply \in Replies
    /\ judgePc = "start"
    /\ parseOut = <<>>
    /\ judgeOut = <<>>

\* parseJudgeResponse(reply.text, criteria, passThreshold), called on its own
Parse ==
    /\ judgePc = "start"
    /\ parseOut' = <<parseJudgeResponse(reply.text, criteria, passThreshold)>>
    /\ judgePc' = "parsed"
    /\ UNCHANGED <<otherVars, matchVars, runVars, names, resolved, criteria, passThreshold, reply,
                   judgeOut>>

\* callJudge up to its await: the prompt is built and generateText is called
CallJudge ==
    /\ judgePc = "start"
    /\ judgePc' = "calling"
    /\ UNCHANGED <<otherVars, matchVars, runVars, names, resolved, criteria, passThreshold, reply,
                   parseOut, judgeOut>>

\* generateText fulfils with the reply: the try block of callJudge
GenerateTextReturns ==
    /\ judgePc = "calling"
    /\ judgeOut' = <<callJudgeParse(reply.text, criteria, passThreshold)>>
    /\ judgePc' = "done"
    /\ UNCHANGED <<otherVars, matchVars, runVars, names, resolved, criteria, passThreshold, reply,
                   parseOut>>

\* generateText rejects: the await throws outside the try block, and callJudge
\* rejects with the same error
GenerateTextRaises ==
    /\ judgePc = "calling"
    /\ \E e \in TransportErrors : judgeOut' = <<Raised(e)>>
    /\ judgePc' = "done"
    /\ UNCHANGED <<otherVars, matchVars, runVars, names, resolved, criteria, passThreshold, reply,
                   parseOut>>

JudgeNext ==
    \/ Parse
    \/ CallJudge
    \/ GenerateTextReturns
    \/ GenerateTextRaises

JudgeSpec == JudgeInit /\ [][JudgeNext]_vars

----------------------------------------------------------------------------
(* Properties of parseJudgeResponse and callJudge *)

Parsed == judgePc = "parsed"
ParsedOk == Parsed /\ ~parseOut[1].raised
judgeResult == parseOut[1].value[1]

\* the member key of the object the reply was made of: <<>> when it has none
srcMember(key) ==
    LET es == reply.src[1].v
        at == {k \in 1..Len(es) : es[k].k = <<key>>}
    IN  IF at = {} THEN <<>> ELSE <<es[CHOOSE k \in at : TRUE].val>>

srcIs(key, ty) == srcMember(key) # <<>> /\ srcMember(key)[1].type = ty

\* the score the reply object gives the criterion named n: <<>> when it gives
\* none, or one that is not a number
srcScore(n) ==
    IF ~srcIs("scores", "entries") THEN <<>>
    ELSE LET es == srcMember("scores")[1].v
             at == {k \in 1..Len(es) : es[k].k = <<n>> /\ es[k].val.type = "number"}
         IN  IF at = {} THEN <<>> ELSE <<es[CHOOSE k \in at : TRUE].val.v>>

HasFence(t) == \E k \in 1..Len(t) : t[k] = FENCE

\* the reply is the whole JSON text of an object, as such or in a code block,
\* and no string of the object holds a fence
Whole ==
    /\ reply.src # <<>>
    /\ reply.wrap # "truncated"
    /\ ~(srcIs("reasoning", "string") /\ HasFence(srcMember("reasoning")[1].v))

\* a number brought into [0,10]
Clamped(n) == IF n > 10 THEN 10 ELSE IF n < 0 THEN 0 ELSE n

\* C14: every JudgeResult parseJudgeResponse returns has its score and all its
\* criteria scores in [0,10]; a number of the reply above 10 is returned as 10,
\* one below 0 as 0, one in the range unchanged.
C14_ScoresClamped ==
    ParsedOk =>
        /\ judgeResult.score \in 0..10
        /\ \A n \in DOMAIN judgeResult.criteriaScores :
              judgeResult.criteriaScores[n] \in 0..10
        /\ (Whole /\ srcIs("overall", "number")) =>
              judgeResult.score = Clamped(srcMember("overall")[1].v)
        /\ Whole =>
              \A k \in 1..Len(criteria) :
                  srcScore(criteria[k].name) # <<>> =>
                      /\ criteria[k].name \in DOMAIN judgeResult.criteriaScores
                      /\ judgeResult.criteriaScores[criteria[k].name]
                            = Clamped(srcScore(criteria[k].name)[1])

\* the reply of the clamping test, in a code block: 15, -3 and 15 come back as
\* 10, 0 and 10
C14_Witness ==
    /\ ParsedOk
    /\ Whole
    /\ reply.wrap = "fenced"
    /\ Len(criteria) = 2
    /\ srcScore("helpful") = <<15>>
    /\ srcScore("accurate") = <<0 - 3>>
    /\ srcMember("overall") = <<JNumber(15)>>
    /\ judgeResult.criteriaScores["helpful"] = 10
    /\ judgeResult.criteriaScores["accurate"] = 0
    /\ judgeResult.score = 10

\* JSON texts over ReplyChars, told by their shape: these characters make
\* numbers, null, strings without escapes and empty objects, nothing else
IsNumberText(t) ==
    /\ t # <<>>
    /\ \A k \in 1..Len(t) : t[k] \in {"0", "1"}
    /\ t[1] = "0" => Len(t) = 1
IsStringText(t) ==
    /\ Len(t) >= 2
    /\ t[1] = DQ /\ t[Len(t)] = DQ
    /\ \A k \in 2..(Len(t) - 1) : t[k] # DQ
IsEmptyObjectText(t) ==
    /\ Len(t) >= 2
    /\ t[1] = "{" /\ t[Len(t)] = "}"
    /\ \A k \in 2..(Len(t) - 1) : t[k] = " "
IsJsonText(t) ==
    \E a \in 1..(Len(t) + 1) : \E b \in (a - 1)..Len(t) :
        /\ \A k \in (1..(a - 1)) \cup ((b + 1)..Len(t)) : t[k] = " "
        /\ LET c == SubSeq(t, a, b)
           IN  c = <<"null">> \/ IsNumberText(c) \/ IsStringText(c) \/ IsEmptyObjectText(c)

\* the text t with an optional code fence stripped: t itself when it has no
\* two fences, else what stands between its first two fences
Stripped(t) ==
    IF Cardinality({k \in 1..Len(t) : t[k] = FENCE}) < 2 THEN t
    ELSE LET a == CHOOSE k \in 1..Len(t) :
                      t[k] = FENCE /\ \A j \in 1..(k - 1) : t[j] # FENCE
             b == CHOOSE k \in (a + 1)..Len(t) :
                      t[k] = FENCE /\ \A j \in (a + 1)..(k - 1) : t[j] # FENCE
         IN  SubSeq(t, a + 1, b - 1)

\* the reply is not a JSON text, also after an optional code fence is stripped
NotJson ==
    \/ reply.wrap = "raw" /\ reply.text # T_notJson /\ ~IsJsonText(Stripped(reply.text))
    \/ reply.text = T_notJson
    \/ reply.wrap = "truncated" /\ ~HasFence(reply.text)

\* C15: parseJudgeResponse raises for every reply that is not a JSON text
\* (after an optional code fence is stripped); it returns no result for it,
\* zeroed or other.
C15_ParseFailureRaises ==
    (Parsed /\ NotJson) => parseOut[1].raised /\ parseOut[1].value = <<>>

\* the reply of the test: plain prose, for which the call raised
C15_Witness ==
    /\ Parsed
    /\ reply.text = T_notJson
    /\ parseOut[1].raised

\* C16: the pass flag of the reply, when it is a boolean, is the result's pass
\* as it is; when it is missing or not a boolean, pass is whether the clamped
\* overall score reaches the threshold.
C16_PassDerivation ==
    ParsedOk =>
        /\ (Whole /\ srcIs("pass", "boolean")) =>
              judgeResult.pass = srcMember("pass")[1].v
        /\ (Whole /\ ~srcIs("pass", "boolean")) =>
              judgeResult.pass = (judgeResult.score >= passThreshold)
        /\ reply.wrap = "raw" =>
              judgeResult.pass = (judgeResult.score >= passThreshold)

\* a reply whose pass is the string 'yes' and whose overall score 5 meets the
\* threshold 5: pass is derived, and true
C16_Witness ==
    /\ ParsedOk
    /\ Whole
    /\ srcIs("pass", "string")
    /\ srcMember("overall") = <<JNumber(5)>>
    /\ passThreshold = 5
    /\ judgeResult.score = 5
    /\ judgeResult.pass

\* C17 (as claimed): every JudgeResult with pass = true has a score that
\* reaches the pass threshold.
C17_PassMeetsThreshold ==
    ParsedOk => (judgeResult.pass => judgeResult.score >= passThreshold)

\* the values of the reply object are of the types asked for and in range
InRange ==
    /\ reply.src # <<>>
    /\ srcIs("overall", "number") /\ srcMember("overall")[1].v \in 0..10
    /\ srcIs("reasoning", "string")
    /\ srcIs("pass", "boolean")
    /\ srcIs("scores", "entries")
    /\ \A k \in 1..Len(srcMember("scores")[1].v) :
          /\ srcMember("scores")[1].v[k].val.type = "number"
          /\ srcMember("scores")[1].v[k].val.v \in 0..10

\* the result gives back the values of the reply object, and the scores of the
\* criteria asked for
GivesBack ==
    /\ ~parseOut[1].raised
    /\ judgeResult.score = srcMember("overall")[1].v
    /\ judgeResult.reasoning = srcMember("reasoning")[1].v
    /\ judgeResult.pass = srcMember("pass")[1].v
    /\ \A k \in 1..Len(criteria) :
          srcScore(criteria[k].name) # <<>> =>
              /\ criteria[k].name \in DOMAIN judgeResult.criteriaScores
              /\ judgeResult.criteriaScores[criteria[k].name] = srcScore(criteria[k].name)[1]

\* C18 (as claimed): for a reply object with values in range, parsing its JSON
\* text, bare or in a fenced code block, gives back its overall score, its
\* reasoning, its pass flag and its criteria scores.
C18_RoundTrip ==
    (Parsed /\ InRange /\ reply.wrap \in {"bare", "fenced"}) => GivesBack

\* What holds: the same for the objects whose reasoning holds no fence, also
\* between blank lines and in a code block within prose.
RoundTripWithoutFence ==
    (Parsed /\ InRange /\ Whole) => GivesBack

\* the outcome of callJudge when generateText has settled
Called == judgePc = "done"

\* the fallback result for the reply text
IsFallback(r, text) ==
    /\ r.pass = FALSE
    /\ r.score = 0
    /\ r.criteriaScores = <<>>
    /\ \E k \in 0..(Len(r.reasoning) - Len(text)) :
          SubSeq(r.reasoning, k + 1, k + Len(text)) = text

\* C13 (as claimed): callJudge does not raise; when the judge call fails or
\* its reply cannot be parsed it returns pass = false, score = 0, no criteria
\* scores and a reasoning that embeds the failure detail.
C13_JudgeFailureIsFallback ==
    Called =>
        /\ ~judgeOut[1].raised
        /\ parseJudgeResponse(reply.text, criteria, passThreshold).raised =>
              IsFallback(judgeOut[1].value[1], reply.text)

\* What holds: a reply that cannot be parsed gives the fallback result.
ParseFailureIsFallback ==
    (Called /\ ~judgeOut[1].raised) =>
        (parseJudgeResponse(reply.text, criteria, passThreshold).raised =>
              IsFallback(judgeOut[1].value[1], reply.text))

----------------------------------------------------------------------------
(* Properties of BenchmarkCommand.run: persistence *)

\* C20 (as claimed): when writing the result file or the report fails after
\* all tests have run, the command ends in error, and the BenchmarkResult it
\* computed, with a result for every test, is the one it holds for display.
C20_RunSurvivesWriteFailure ==
    (pc = "end" /\ written # {"json", "md"}) =>
        /\ status = "error"
        /\ finalResult # <<>>
        /\ Len(finalResult[1].results) = Len(tests)
        /\ results = finalResult


----------------------------------------------------------------------------
(* Properties of the dataset load *)

\* the dataset path holds something other than an array of test definitions
BadDataset ==
    \/ dataset # "array"
    \/ \E k \in 1..Len(tests) : isNull(tests[k])

\* C21: a missing or malformed dataset is fatal before any test runs: no
\* inference call is dispatched, the command ends in the error status, and
\* neither a run record nor a report is written.
C21_BadDatasetIsFatal ==
    BadDataset =>
        /\ \A k \in 1..Len(tests) : dispatched[k] = 0
        /\ Ended => status = "error"
        /\ finalResult = <<>>
        /\ results = <<>>
        /\ written \cap {"json", "md"} = {}

\* the tests of the dataset that carry no category
Uncategorized == {k \in 1..Len(tests) : ~isNull(tests[k]) /\ "category" \notin DOMAIN tests[k]}

\* C22: a test without category is grouped under "uncategorized", in the
\* category buckets and in the category of its recorded result.
C22_AbsentCategoryIsUncategorized ==
    \A k \in Uncategorized :
        /\ dispatched[k] > 0 => "uncategorized" \in DOMAIN categoryResults
        /\ k <= Len(allResults) => allResults[k].category = "uncategorized"

----------------------------------------------------------------------------
(* lib/data.ts: the training data files *)

\* longest content of an enumerated train.jsonl, in characters, a line of
\* JSON counting as one
MaxFileLen == 5

\* The content of a data file is a text made of newlines and lines of JSON,
\* each JSON text standing for one example.
SYSTEM_CTX == [role |-> "system", content |-> "You are helpful."]
DEV_CTX == [role |-> "developer", content |-> "You are a code assistant."]

\* the TrainingExample built by appendToTrainingData and updateExample
exampleOf(e) ==
    [messages |-> <<[role |-> e.contextMessage.role, content |-> e.contextMessage.content],
                    [role |-> "user", content |-> e.userInput],
                    [role |-> "assistant", content |-> e.assistantOutput]>>]

IN_A == [contextMessage |-> SYSTEM_CTX, userInput |-> "A", assistantOutput |-> "1"]
IN_B == [contextMessage |-> SYSTEM_CTX, userInput |-> "B", assistantOutput |-> "2"]
IN_new == [contextMessage |-> DEV_CTX, userInput |-> "new", assistantOutput |-> "new-out"]

\* JSON.stringify(example), one character of the content
stringifyExample(ex) ==
    CASE ex = exampleOf(IN_A) -> "{A}"
      [] ex = exampleOf(IN_B) -> "{B}"
      [] ex = exampleOf(IN_new) -> "{new}"

\* JSON.parse(line) of a line holding one JSON text, whitespace around it
\* allowed
parseExample(line) ==
    LET text == trim(line)[1]
    IN  CASE text = "{A}" -> exampleOf(IN_A)
          [] text = "{B}" -> exampleOf(IN_B)
          [] text = "{new}" -> exampleOf(IN_new)

FileChars == {"\n", "{A}", "{B}"}

\* content.split('\n')
RECURSIVE splitLines(_)
splitLines(s) ==
    IF \A k \in 1..Len(s) : s[k] # "\n" THEN <<s>>
    ELSE LET k == CHOOSE x \in 1..Len(s) :
                      s[x] = "\n" /\ \A y \in 1..(x - 1) : s[y] # "\n"
         IN  <<SubSeq(s, 1, k - 1)>> \o splitLines(SubSeq(s, k + 1, Len(s)))

\* .filter(line => line.trim())
nonBlankLines(content) == SelectSeq(splitLines(content), LAMBDA line : trim(line) # <<>>)

\* every line that is not blank holds exactly one JSON text
WellFormed(content) ==
    \A k \in 1..Len(splitLines(content)) : Len(trim(splitLines(content)[k])) <= 1

Contents == {c \in UNION {[1..n -> FileChars] : n \in 0..MaxFileLen} : WellFormed(c)}

File(c) == [exists |-> TRUE, content |-> c]

\* train.jsonl is absent or holds any well-formed content; valid.jsonl is
\* absent, or holds no example, or one
TrainFiles == {NoFile} \cup {File(c) : c \in Contents}
ValidFiles == {NoFile, File(<<"\n">>), File(<<"{B}", "\n">>)}

countExamples(file) ==
    IF ~file.exists THEN 0
    ELSE IF trim(file.content) = <<>> THEN 0
    ELSE Len(nonBlankLines(trim(file.content)))

loadTrainingData(file) ==
    IF ~file.exists THEN <<>>
    ELSE IF trim(file.content) = <<>> THEN <<>>
    ELSE LET lines == nonBlankLines(trim(file.content))
         IN  [k \in 1..Len(lines) |-> parseExample(lines[k])]

\* examples.map(ex => JSON.stringify(ex)).join('\n')
RECURSIVE joinLines(_)
joinLines(examples) ==
    IF examples = <<>> THEN <<>>
    ELSE IF Len(examples) = 1 THEN <<stringifyExample(examples[1])>>
    ELSE <<stringifyExample(examples[1]), "\n">> \o joinLines(Tail(examples))

\* the file saveTrainingData(examples) writes
saveTrainingData(examples) == File(joinLines(examples) \o <<"\n">>)

\* arr.splice(start, 1) without the delete count: everything from start goes
spliceToEnd(arr, start) == SubSeq(arr, 1, start)

\* arr.splice(start, 1), for 0 <= start < arr.length
splice(arr, start) == SubSeq(arr, 1, start) \o SubSeq(arr, start + 2, Len(arr))

\* the file of a call: isEval picks valid.jsonl
fileOf(isEval) == IF isEval THEN validFile ELSE trainFile

\* the call writes file f as the file isEval picks
Writes(isEval, f) ==
    /\ trainFile' = IF isEval THEN trainFile ELSE f
    /\ validFile' = IF isEval THEN f ELSE validFile

Logged(name, index, isEval, example, returned) ==
    dataOp' = [name |-> name, index |-> index, isEval |-> isEval, example |-> example,
               train |-> trainFile, valid |-> validFile, returned |-> returned]

NoCounts == [trainCount |-> 0, validCount |-> 0]

deleteExample(index, isEval) ==
    LET examples == loadTrainingData(fileOf(isEval))
    IN  /\ IF index >= 0 /\ index < Len(examples)
           THEN Writes(isEval, saveTrainingData(splice(examples, index)))
           ELSE UNCHANGED <<trainFile, validFile>>
        /\ Logged("deleteExample", index, isEval, <<>>, NoCounts)
        /\ UNCHANGED <<matchVars, runVars, judgeVars, wizardVars>>

updateExample(index, example, isEval) ==
    LET examples == loadTrainingData(fileOf(isEval))
    IN  /\ IF index >= 0 /\ index < Len(examples)
           THEN Writes(isEval, saveTrainingData(
                    [examples EXCEPT ![index + 1] = exampleOf(example)]))
           ELSE UNCHANGED <<trainFile, validFile>>
        /\ Logged("updateExample", index, isEval, <<exampleOf(example)>>, NoCounts)
        /\ UNCHANGED <<matchVars, runVars, judgeVars, wizardVars>>


\* arr.slice(start, end): a negative index counts from the end
relativeIndex(k, len) == IF k < 0 THEN MathMax(len + k, 0) ELSE MathMin(k, len)
slice(arr, start, end) ==
    SubSeq(arr, relativeIndex(start, Len(arr)) + 1, relativeIndex(end, Len(arr)))

\* the default of the validationRatio parameter, 0.1, and the ratios a caller
\* may give, as fractions
validationRatio == [num |-> 1, den |-> 10]
Ratios == {validationRatio, [num |-> 1, den |-> 2], [num |-> 3, den |-> 2]}

\* Math.floor(n * ratio)
floorOf(n, ratio) == (n * ratio.num) \div ratio.den

\* validCountOf without the minimum of one validation example
validCountFloorOnly(n, ratio) == floorOf(n, ratio)

\* Math.max(n >= 2 ? 1 : 0, Math.floor(n * validationRatio))
validCountOf(n, ratio) == MathMax(IF n >= 2 THEN 1 ELSE 0, floorOf(n, ratio))

\* the orders sort(() => Math.random() - 0.5) may leave n elements in
Shuffles(n) == {p \in [1..n -> 1..n] : \A a, b \in 1..n : p[a] = p[b] => a = b}

\* splitTrainValidation(ratio), the call named `name` in the history
split(name, ratio) ==
    LET allExamples == loadTrainingData(trainFile)
        n == Len(allExamples)
    IN  IF n = 0
        THEN /\ UNCHANGED <<trainFile, validFile>>
             /\ Logged(name, 0, FALSE, <<>>, NoCounts)
        ELSE \E p \in Shuffles(n) :
               LET shuffled == [k \in 1..n |-> allExamples[p[k]]]
                   validCount == validCountOf(n, ratio)
                   trainCount == n - validCount
               IN  /\ trainFile' = saveTrainingData(slice(shuffled, 0, trainCount))
                   /\ validFile' = saveTrainingData(slice(shuffled, trainCount, n))
                   /\ Logged(name, 0, FALSE, <<>>,
                             [trainCount |-> trainCount, validCount |-> validCount])

splitTrainValidation(ratio) ==
    /\ split("splitTrainValidation", ratio)
    /\ UNCHANGED <<matchVars, runVars, judgeVars, wizardVars>>

ensureValidationSet ==
    /\ LET validCount == countExamples(validFile)
           trainCount == countExamples(trainFile)
       IN  IF validCount = 0 /\ trainCount > 0
           THEN split("ensureValidationSet", validationRatio)
           ELSE /\ UNCHANGED <<trainFile, validFile>>
                /\ Logged("ensureValidationSet", 0, FALSE, <<>>,
                          [trainCount |-> trainCount, validCount |-> validCount])
    /\ UNCHANGED <<matchVars, runVars, judgeVars, wizardVars>>

\* most examples a file of MaxFileLen characters holds, and the indexes tried
MaxExamples == (MaxFileLen + 1) \div 2
Indexes == -1..MaxExamples

DataInit ==
    /\ trainFile \in TrainFiles
    /\ validFile \in ValidFiles
    /\ dataOp = NoOp
    /\ WizardIdle
    /\ MatchIdle
    /\ RunIdle
    /\ JudgeIdle

DataNext ==
    \/ \E index \in Indexes, isEval \in BOOLEAN : deleteExample(index, isEval)
    \/ \E index \in Indexes, isEval \in BOOLEAN : updateExample(index, IN_new, isEval)
    \/ \E ratio \in Ratios : splitTrainValidation(ratio)
    \/ ensureValidationSet

DataSpec == DataInit /\ [][DataNext]_vars

----------------------------------------------------------------------------
(* Properties of lib/data.ts *)

\* the stored examples of the file the last call was about, before and after
storedBefore == loadTrainingData(IF dataOp.isEval THEN dataOp.valid ELSE dataOp.train)
storedAfter == loadTrainingData(fileOf(dataOp.isEval))

\* the other file is as the call found it
OtherFileKept ==
    IF dataOp.isEval THEN trainFile = dataOp.train ELSE validFile = dataOp.valid

\* C24: deleteExample(i) and updateExample(i, e) with i outside [0, length)
\* leave the stored examples as they were; with i in range, deleteExample
\* removes example i and keeps the others in their order, and updateExample
\* puts e in place of example i and keeps the count and the others.
C24_DeleteUpdateByIndex ==
    dataOp.name \in {"deleteExample", "updateExample"} =>
        LET k == dataOp.index
        IN  /\ OtherFileKept
            /\ IF k < 0 \/ k >= Len(storedBefore)
               THEN storedAfter = storedBefore
               ELSE IF dataOp.name = "deleteExample"
               THEN /\ Len(storedAfter) = Len(storedBefore) - 1
                    /\ \A j \in 1..Len(storedAfter) :
                          storedAfter[j] = storedBefore[IF j <= k THEN j ELSE j + 1]
               ELSE /\ Len(storedAfter) = Len(storedBefore)
                    /\ storedAfter[k + 1] = dataOp.example[1]
                    /\ \A j \in 1..Len(storedAfter) :
                          j # k + 1 => storedAfter[j] = storedBefore[j]

\* the middle one of three stored examples was deleted
C24_Witness ==
    /\ dataOp.name = "deleteExample"
    /\ dataOp.index = 1
    /\ Len(storedBefore) = 3
    /\ storedBefore[1] # storedBefore[2]
    /\ storedAfter = <<storedBefore[1], storedBefore[3]>>


\* how many times example e occurs in the array
Occurrences(e, examples) == Cardinality({k \in 1..Len(examples) : examples[k] = e})

\* the last call divided the training examples it found between the two files
Partitioned ==
    LET before == loadTrainingData(dataOp.train)
        train == loadTrainingData(trainFile)
        valid == loadTrainingData(validFile)
        n == Len(before)
    IN  /\ dataOp.returned.trainCount + dataOp.returned.validCount = n
        /\ n > 0 => Len(train) + Len(valid) = n
        /\ \A e \in Range(before) :
              Occurrences(e, train) + Occurrences(e, valid) = Occurrences(e, before)
        /\ n >= 2 => dataOp.returned.validCount >= 1 /\ Len(valid) >= 1

\* the last call found no validation example and some training example
NeedsSplit == countExamples(dataOp.valid) = 0 /\ countExamples(dataOp.train) > 0

\* C30: splitTrainValidation partitions the stored training examples: the
\* counts it returns add up to their number, each of them is afterwards in
\* exactly one of the two files, and the validation set gets at least one
\* when there were two or more; ensureValidationSet splits only when the
\* validation set is empty and the training set is not, and otherwise leaves
\* both files as they were.
C30_SplitPartitions ==
    /\ dataOp.name = "splitTrainValidation" => Partitioned
    /\ dataOp.name = "ensureValidationSet" =>
          IF NeedsSplit THEN Partitioned
          ELSE trainFile = dataOp.train /\ validFile = dataOp.valid

\* ensureValidationSet split three training examples, two of them different,
\* into two for training and one for validation
C30_Witness ==
    /\ dataOp.name = "ensureValidationSet"
    /\ NeedsSplit
    /\ Len(loadTrainingData(dataOp.train)) = 3
    /\ Cardinality(Range(loadTrainingData(dataOp.train))) = 2
    /\ Len(loadTrainingData(trainFile)) = 2
    /\ Len(loadTrainingData(validFile)) = 1


----------------------------------------------------------------------------
(* Properties of the race *)

\* the inference calls still running
Running == {k \in 1..Len(tests) : inference[k] = "running"}

\* C25 as stated: at any moment at most one inference call started by the
\* runner is still running.
C25_OneInferenceRunning == Cardinality(Running) <= 1

\* C25, amended: the runner makes one inference call per test and makes it
\* only when every earlier test is recorded; a call still running is the one
\* of the race awaited, or the call of a test recorded as timed out.
C25_OneRaceAtATime ==
    \A k \in 1..Len(tests) :
        /\ dispatched[k] <= 1
        /\ dispatched[k] > 0 => Len(allResults) >= k - 1
        /\ k \in Running =>
              \/ k = i + 1 /\ pc = "await"
              \/ k <= Len(outcomes) /\ outcomes[k].kind = "TimedOut"

\* the call of the first test, recorded as timed out, runs on while the call
\* of the second is running
C25_Witness ==
    /\ Len(tests) = 2
    /\ Running = {1, 2}
    /\ Len(allResults) = 1
    /\ outcomes[1].kind = "TimedOut"

\* a step in which the loser of a decided race settles: the inference call
\* or the timer of a test whose race is not open
LateSettlement ==
    \E j \in 1..Len(tests) :
        /\ ~(pc = "await" /\ j = i + 1 /\ settled = <<>>)
        /\ \/ inference[j] = "running" /\ inference'[j] = "settled"
           \/ timer[j] = "armed" /\ timer'[j] = "fired"

\* C26: a result is immutable once recorded: no step changes a recorded
\* result or the summary once computed, and the late settlement of the loser
\* of a race changes no result, no category counter, no failures entry, no
\* summary, and nothing of the race of a later test.
C26_RecordedIsImmutable ==
    [][/\ Len(allResults') >= Len(allResults)
       /\ \A k \in 1..Len(allResults) : allResults'[k] = allResults[k]
       /\ finalResult # <<>> => finalResult' = finalResult
       /\ LateSettlement =>
             UNCHANGED <<allResults, categoryResults, inherited, failures, finalResult,
                         results, settled, outcomes, i, pc, status>>]_vars

\* both tests are recorded, the first as timed out and the second as
\* completed, and the losers, the first call and the second timer, have settled
C26_Witness ==
    /\ Len(allResults) = 2
    /\ outcomes[1].kind = "TimedOut"
    /\ inference[1] = "settled"
    /\ outcomes[2].kind = "Completed"
    /\ timer[2] = "fired"


----------------------------------------------------------------------------
(* Properties of cancellation *)

\* C27: once the user has cancelled the run, no inference call is dispatched
\* for any further test, and the test in flight at the cancellation is
\* recorded, as completed or as an error.
C27_NoDispatchAfterCancel ==
    exited # <<>> =>
        /\ SumOver(dispatched, DOMAIN dispatched) = exited[1]
        /\ Ended => Len(allResults) = exited[1]


----------------------------------------------------------------------------
(* Properties of the semantic mode in a run *)

\* the recorded tests whose inference call completed with nothing but
\* whitespace, if anything
BlankCompleted ==
    {k \in 1..Len(allResults) :
        outcomes[k].kind = "Completed" /\ \A c \in Range(outcomes[k].text) : IsSpace(c)}

----------------------------------------------------------------------------
(* JudgeConfigureCommand: the wizard of `nanotune judge configure` *)

\* most fields a provider template asks for
MaxFields == 3

\* the provider templates offered: a local provider asking for the model
\* alone, one asking for a key as well, and one asking for as many fields as a
\* template has
Templates == {[id |-> "ollama", fields |-> 1], [id |-> "openrouter", fields |-> 2],
              [id |-> "custom", fields |-> MaxFields]}

\* template.buildConfig(answers)
buildConfig(template) == [name |-> template.id]

\* what a submitted value comes to: refused by the field's validator, or taken
\* (a required field left empty does not advance and changes nothing)
Submissions == {"invalid", "accepted"}

\* the command starts: judge.json is absent or holds an earlier configuration
WizardInit ==
    /\ step = "select-provider"
    /\ selectedTemplate = <<>>
    /\ fieldIndex = 0
    /\ builtConfig = <<>>
    /\ mounted = TRUE
    /\ testCall = "none"
    /\ cancelled = FALSE
    /\ exitTimer = "idle"
    /\ judgeFile \in {<<>>, <<[name |-> "previous"]>>}
    /\ stepsTaken = <<"select-provider">>
    /\ writes = <<>>
    /\ DataIdle
    /\ MatchIdle
    /\ RunIdle
    /\ JudgeIdle

\* setStep(next)
setStep(next) ==
    /\ step' = next
    /\ stepsTaken' = Append(stepsTaken, next)

\* handleProviderSelect, called by the Select shown in the first step
handleProviderSelect(template) ==
    /\ mounted
    /\ step = "select-provider"
    /\ selectedTemplate' = <<template>>
    /\ setStep("fill-fields")
    /\ fieldIndex' = 0
    /\ UNCHANGED <<builtConfig, mounted, testCall, cancelled, exitTimer, judgeFile, writes>>
    /\ UNCHANGED <<matchVars, runVars, judgeVars, dataVars>>

\* handleFieldSubmit, called by the TextInput of the field asked
handleFieldSubmit(submission) ==
    /\ mounted
    /\ step = "fill-fields"
    /\ selectedTemplate # <<>>
    /\ IF submission = "invalid"
       THEN /\ setStep("error")
            /\ UNCHANGED <<fieldIndex, builtConfig>>
       ELSE IF fieldIndex < selectedTemplate[1].fields - 1
       THEN /\ fieldIndex' = fieldIndex + 1
            /\ UNCHANGED <<step, stepsTaken, builtConfig>>
       ELSE /\ builtConfig' = <<buildConfig(selectedTemplate[1])>>
            /\ setStep("confirm")
            /\ UNCHANGED fieldIndex
    /\ UNCHANGED <<selectedTemplate, mounted, testCall, cancelled, exitTimer, judgeFile, writes>>
    /\ UNCHANGED <<matchVars, runVars, judgeVars, dataVars>>

\* saveJudgeConfig(builtConfig), the write noted in the history with the
\* step it is made in, the state of the test call and the flag
saveJudgeConfig ==
    /\ judgeFile' = builtConfig
    /\ writes' = Append(writes, [config |-> builtConfig[1], step |-> step,
                                 testCall |-> testCall', cancelled |-> cancelled])

\* ConfirmYes saving the configuration before the connection is tested
ConfirmYesSavesFirst ==
    /\ mounted
    /\ step = "confirm"
    /\ builtConfig # <<>>
    /\ testCall' = "running"
    /\ cancelled' = FALSE
    /\ saveJudgeConfig
    /\ setStep("testing")
    /\ UNCHANGED <<selectedTemplate, fieldIndex, builtConfig, mounted, exitTimer>>
    /\ UNCHANGED <<matchVars, runVars, judgeVars, dataVars>>

\* 'y' in the confirm step: the step becomes 'testing' and its effect starts
\* the connection test, callJudge
ConfirmYes ==
    /\ mounted
    /\ step = "confirm"
    /\ builtConfig # <<>>
    /\ setStep("testing")
    /\ testCall' = "running"
    /\ cancelled' = FALSE
    /\ UNCHANGED <<selectedTemplate, fieldIndex, builtConfig, mounted, exitTimer, judgeFile,
                   writes>>
    /\ UNCHANGED <<matchVars, runVars, judgeVars, dataVars>>

\* exit(): the component is unmounted, and the cleanup of the effect of the
\* testing step, if that is the step, sets its flag
exit ==
    /\ mounted' = FALSE
    /\ cancelled' = IF step = "testing" THEN TRUE ELSE cancelled

\* 'n' in the confirm step
ConfirmNo ==
    /\ mounted
    /\ step = "confirm"
    /\ builtConfig # <<>>
    /\ exit
    /\ UNCHANGED <<step, selectedTemplate, fieldIndex, builtConfig, testCall, exitTimer,
                   judgeFile, stepsTaken, writes>>
    /\ UNCHANGED <<matchVars, runVars, judgeVars, dataVars>>

\* Esc in any step
Escape ==
    /\ mounted
    /\ exit
    /\ UNCHANGED <<step, selectedTemplate, fieldIndex, builtConfig, testCall, exitTimer,
                   judgeFile, stepsTaken, writes>>
    /\ UNCHANGED <<matchVars, runVars, judgeVars, dataVars>>

\* callJudge returns: unless cancelled the configuration is saved and the
\* step becomes 'done'; a write that throws is caught like a failed call
CallReturns ==
    /\ testCall = "running"
    /\ testCall' = "returned"
    /\ IF cancelled
       THEN UNCHANGED <<step, stepsTaken, judgeFile, writes, exitTimer>>
       ELSE \/ /\ saveJudgeConfig
               /\ setStep("done")
               /\ exitTimer' = "armed"
            \/ /\ setStep("error")
               /\ UNCHANGED <<judgeFile, writes, exitTimer>>
    /\ UNCHANGED <<selectedTemplate, fieldIndex, builtConfig, mounted, cancelled>>
    /\ UNCHANGED <<matchVars, runVars, judgeVars, dataVars>>

\* callJudge raises: unless cancelled the step becomes 'error'
CallRaises ==
    /\ testCall = "running"
    /\ testCall' = "raised"
    /\ IF cancelled THEN UNCHANGED <<step, stepsTaken>> ELSE setStep("error")
    /\ UNCHANGED <<selectedTemplate, fieldIndex, builtConfig, mounted, cancelled, exitTimer,
                   judgeFile, writes>>
    /\ UNCHANGED <<matchVars, runVars, judgeVars, dataVars>>

\* the timer set on 'done' fires and calls exit()
ExitTimer ==
    /\ exitTimer = "armed"
    /\ exitTimer' = "fired"
    /\ exit
    /\ UNCHANGED <<step, selectedTemplate, fieldIndex, builtConfig, testCall, judgeFile,
                   stepsTaken, writes>>
    /\ UNCHANGED <<matchVars, runVars, judgeVars, dataVars>>

WizardNext ==
    \/ \E template \in Templates : handleProviderSelect(template)
    \/ \E submission \in Submissions : handleFieldSubmit(submission)
    \/ ConfirmYes
    \/ ConfirmNo
    \/ Escape
    \/ CallReturns
    \/ CallRaises
    \/ ExitTimer

WizardSpec == WizardInit /\ [][WizardNext]_vars

\* C29: judge.json is written only in the testing step, after the connection
\* test returned and while the command was not cancelled; when the test call
\* raises nothing is saved and the wizard, unless cancelled, is in the error
\* state; 'done' is reached only by way of select-provider, fill-fields,
\* confirm and testing.
C29_SavedOnlyAfterTest ==
    /\ \A k \in 1..Len(writes) :
          /\ writes[k].step = "testing"
          /\ writes[k].testCall = "returned"
          /\ ~writes[k].cancelled
    /\ Len(writes) <= 1
    /\ writes # <<>> => testCall = "returned"
    /\ testCall = "raised" => writes = <<>> /\ (~cancelled => step = "error")
    /\ testCall # "returned" => writes = <<>>
    /\ step = "done" =>
          stepsTaken = <<"select-provider", "fill-fields", "confirm", "testing", "done">>

\* the wizard is done: judge.json holds the configuration built from the
\* custom template, written once the test call had returned
C29_Witness ==
    /\ step = "done"
    /\ writes # <<>>
    /\ judgeFile = <<[name |-> "custom"]>>
    /\ testCall = "returned"

====
